---- MODULE Spec2Model ----
(***************************************************************************)
(* A model of the EBM core of meggersntexasv8/interpret:                   *)
(*   - SegmentedRegionCore (SegmentedRegion.h): the segmented tensor with  *)
(*     SetCountDivisions, EnsureValueCapacity, GetValue, Expand and Add;   *)
(*   - BuildFastTotals, GetTotals, SweepMultiDiemensional and              *)
(*     TrainMultiDimensional (MultiDimensionalTraining.h);                 *)
(*   - ConstructInputData (DataSetByAttributeCombination.cpp).             *)
(*                                                                         *)
(* C arrays are sequences; a pointer into an array is the 0-based index of *)
(* the element it points to, so that "one before the array" is -1 as in    *)
(* the source.  Dimensions are numbered 1..cDimensions.                    *)
(***************************************************************************)
EXTENDS Integers, Sequences, FiniteSets, TLC

VARIABLES
    acStates,      \* tensor part: cStates of every axis (acDivisionsPlusOne of Expand)
    A,             \* tensor part: the tensor operated on (*this)
    B,             \* tensor part: the other tensor (rhs of Add)
    op,            \* tensor part: the running operation, its cursors and its stack
    preA,          \* tensor part: A as it was when the running operation began
    preB,          \* tensor part: B as it was when the running operation began
    cOps,          \* tensor part: operations started so far
    hStates,       \* histogram part: cStates of every attribute of the combination
    aDebugCopy,    \* histogram part: aBinnedBucketsDebugCopy, the buckets before the transform
    aBinnedBuckets,\* histogram part: main cube followed by the rings
    fastTotalState,\* histogram part: iCur and pDimensionalCur of every dimension
    pBinnedBucket, \* histogram part: the cell BuildFastTotals is at
    hpc,           \* histogram part: where TrainMultiDimensional is
    cCases,        \* histogram part: cases binned so far
    query,         \* histogram part: the last GetTotals call and what it returned
    train,         \* histogram part: what TrainMultiDimensional retained and emitted
    pack           \* input part: the call of ConstructInputData and the block it fills

vars == <<acStates, A, B, op, preA, preB, cOps, hStates, aDebugCopy, aBinnedBuckets,
          fastTotalState, pBinnedBucket, hpc, cCases, query, train, pack>>

tensorVars == <<acStates, A, B, op, preA, preB, cOps>>
histVars == <<hStates, aDebugCopy, aBinnedBuckets, fastTotalState, pBinnedBucket,
              hpc, cCases, query, train>>

\* ---------------------------------------------------------------- bounds
\* most cuts on one axis of a tensor drawn in InitTensor
MaxCuts == 2
\* most operations run in a row on the tensor A
MaxOps == 2
\* most cases binned into the histogram of a pair that is split
MaxCases == 4
\* most cases binned into a histogram that GetTotals is called on from outside
MaxQueryCases == 2
\* most cases of a data set that ConstructInputData packs
MaxPackCases == 5
\* the bits of StorageDataTypeCore, scaled down from the 64 of size_t
WordBits == 8

\* ------------------------------------------------------- program constants
k_initialDivisionCapacity == 1
k_initialValueCapacity == 2

\* ----------------------------------------------------------------- arrays
Rd(a, i) == a[i + 1]
Wr(a, i, v) == [a EXCEPT ![i + 1] = v]

\* what malloc and realloc leave in memory the program has not written yet;
\* the program never reads it (checked by NoUninitRead below)
Uninit == 0 - 1000

Realloc(a, cNew) == IF Len(a) < cNew
                    THEN a \o [i \in 1..(cNew - Len(a)) |-> Uninit]
                    ELSE SubSeq(a, 1, cNew)

RECURSIVE Product(_)
Product(s) == IF s = <<>> THEN 1 ELSE Head(s) * Product(Tail(s))

RECURSIVE SumSeq(_)
SumSeq(s) == IF s = <<>> THEN 0 ELSE Head(s) + SumSeq(Tail(s))

\* every tuple of bins of a grid with the given cStates
BinTuples(cs) == { x \in [1..Len(cs) -> 0..9] : \A d \in 1..Len(cs) : x[d] < cs[d] }

\* the dense index of a bin tuple: sum_d x_d * prod_{d' < d} cStates_d'
DirectIndex(cs, x) == SumSeq([d \in 1..Len(cs) |-> x[d] * Product(SubSeq(cs, 1, d - 1))])

\* no call of ConstructInputData
NoPack == [ pc |-> "off", cStates |-> <<>>, cCases |-> 0, aInputDataFrom |-> <<>>,
            cItemsPerBitPackDataUnit |-> 0, aInputDataTo |-> <<>>, pInputDataTo |-> 0,
            dimensionInfo |-> <<>>, cReads |-> <<>> ]

PackIdle == pack = NoPack

\* ------------------------------------------------------ SegmentedRegionCore

cDimensionsOf(t) == Len(t.m_aDimensions)

\* Allocate followed by nothing else: no divisions, the base value zero
Allocate(cDimensionsMax, cVectorLength) ==
    [ m_cVectorLength |-> cVectorLength,
      m_cValueCapacity |-> cVectorLength * k_initialValueCapacity,
      m_aValues |-> [i \in 1..(cVectorLength * k_initialValueCapacity) |->
                        IF i <= cVectorLength THEN 0 ELSE Uninit],
      m_bExpanded |-> FALSE,
      m_aDimensions |-> [d \in 1..cDimensionsMax |->
                           [ cDivisions |-> 0,
                             aDivisions |-> [i \in 1..k_initialDivisionCapacity |-> Uninit],
                             cDivisionCapacity |-> k_initialDivisionCapacity ]] ]

SetCountDivisions(t, iDimension, cDivisions) ==
    LET pDimension == t.m_aDimensions[iDimension]
        cNewDivisionCapacity == cDivisions + (cDivisions \div 2)
        grown == IF pDimension.cDivisionCapacity < cDivisions
                 THEN [pDimension EXCEPT
                          !.aDivisions = Realloc(@, cNewDivisionCapacity),
                          !.cDivisionCapacity = cNewDivisionCapacity]
                 ELSE pDimension
    IN [t EXCEPT !.m_aDimensions[iDimension] = [grown EXCEPT !.cDivisions = cDivisions]]

EnsureValueCapacity(t, cValues) ==
    LET cNewValueCapacity == cValues + (cValues \div 2)
    IN IF t.m_cValueCapacity < cValues
       THEN [t EXCEPT !.m_aValues = Realloc(@, cNewValueCapacity),
                      !.m_cValueCapacity = cNewValueCapacity]
       ELSE t

\* SetCountDivisions, lines 147-156: the array has to grow, through a realloc that
\* returns nullptr when memory is out
SetCountDivisionsGrows(t, iDimension, cDivisions) ==
    t.m_aDimensions[iDimension].cDivisionCapacity < cDivisions

\* EnsureValueCapacity, lines 165-174: the same for the value array
EnsureValueCapacityGrows(t, cValues) == t.m_cValueCapacity < cValues

\* the number of regions of the value grid
CountRegions(t) == Product([d \in 1..cDimensionsOf(t) |-> t.m_aDimensions[d].cDivisions + 1])

\* the divisions in use on one axis
Divisions(t, d) == SubSeq(t.m_aDimensions[d].aDivisions, 1, t.m_aDimensions[d].cDivisions)

\* the values in use
Values(t) == SubSeq(t.m_aValues, 1, CountRegions(t) * t.m_cVectorLength)

\* the binary search of GetValue: the region of value d on an axis
RECURSIVE SearchDivisions(_, _, _, _)
SearchDivisions(aDivisions, d, low, high) ==
    LET middle == (low + high) \div 2
        midVal == Rd(aDivisions, middle)
        high2 == IF midVal < d THEN high ELSE middle - 1
        low2 == IF midVal < d THEN middle + 1 ELSE low
    IN IF midVal = d THEN middle
       ELSE IF low2 <= high2 THEN SearchDivisions(aDivisions, d, low2, high2)
       ELSE IF midVal < d THEN middle + 1 ELSE middle

RECURSIVE GetValueExpanded(_, _, _, _, _)
GetValueExpanded(t, aDivisionValue, d, iValue, valueMultiple) ==
    LET iValue2 == iValue + aDivisionValue[d] * valueMultiple
    IN IF d = cDimensionsOf(t) THEN iValue2
       ELSE GetValueExpanded(t, aDivisionValue, d + 1, iValue2,
                             valueMultiple * (t.m_aDimensions[d].cDivisions + 1))

RECURSIVE GetValueCompact(_, _, _, _, _)
GetValueCompact(t, aDivisionValue, d, iValue, valueMultiple) ==
    IF d > cDimensionsOf(t) THEN iValue
    ELSE LET cDivisions == t.m_aDimensions[d].cDivisions
             middle == SearchDivisions(t.m_aDimensions[d].aDivisions, aDivisionValue[d],
                                       0, cDivisions - 1)
         IN IF cDivisions # 0
            THEN GetValueCompact(t, aDivisionValue, d + 1, iValue + middle * valueMultiple,
                                 valueMultiple * (cDivisions + 1))
            ELSE GetValueCompact(t, aDivisionValue, d + 1, iValue, valueMultiple)

\* GetValue: the index in m_aValues of the first value of the region holding the bin tuple
GetValue(t, aDivisionValue) ==
    IF t.m_bExpanded
    THEN GetValueExpanded(t, aDivisionValue, 1, 0, t.m_cVectorLength)
    ELSE GetValueCompact(t, aDivisionValue, 1, 0, t.m_cVectorLength)

\* the value vector GetValue points at
ValueAt(t, x) == [iVector \in 1..t.m_cVectorLength |-> Rd(t.m_aValues, GetValue(t, x) + iVector - 1)]

\* ------------------------------------------------------------------ Expand

\* the running operation when none runs
NoOp == [ kind |-> "none", pc |-> "idle", ret |-> FALSE,
          pValue1 |-> 0, pValue2 |-> 0, pValueTop |-> 0, stack |-> <<>> ]

\* Expand, lines 285-318: aDimensionInfoStackExpand
ExpandStack(t, acDivisionsPlusOne) ==
    [d \in 1..cDimensionsOf(t) |->
        [ pDivision1 |-> t.m_aDimensions[d].cDivisions - 1,
          iDivision2 |-> acDivisionsPlusOne[d] - 2,
          cNewDivisions |-> acDivisionsPlusOne[d] - 2 ]]

\* the inner do-while of Expand and of Add: one value vector written downwards
\* from pValueTop, each value computed from the array as it is at that moment
RECURSIVE CopyVector(_, _, _, _, _, _)
CopyVector(aValues, aValues2, pValueTop, pValue1Move, pValue2Move, cLeft) ==
    IF cLeft = 0 THEN aValues
    ELSE CopyVector(
            Wr(aValues, pValueTop,
               Rd(aValues, pValue1Move)
                 + (IF aValues2 = <<>> THEN 0 ELSE Rd(aValues2, pValue2Move))),
            aValues2, pValueTop - 1, pValue1Move - 1, pValue2Move - 1, cLeft - 1)

\* line 368 with < for <=
ExpandChange1Strict(iDivision2, d1) == IF iDivision2 < d1 THEN 1 ELSE 0

\* Expand, line 368: the old cursor steps down when the next bin to write is at or
\* below the division it is on
ExpandChange1(iDivision2, d1) == IF iDivision2 <= d1 THEN 1 ELSE 0

RECURSIVE ExpandMove(_, _, _, _, _)
ExpandMove(t, stack, pValue1, multiplication1, d) ==
    LET s == stack[d]
        aDivisions1 == t.m_aDimensions[d].aDivisions
        cDivisions1 == t.m_aDimensions[d].cDivisions
        change1 == ExpandChange1(s.iDivision2, Rd(aDivisions1, s.pDivision1))
        multiplication1Next == multiplication1 * (1 + cDivisions1)
    IN IF 0 <= s.pDivision1
       THEN [ stack |-> [stack EXCEPT ![d] = [@ EXCEPT !.pDivision1 = @ - change1,
                                                        !.iDivision2 = @ - 1]],
              pValue1 |-> pValue1 - change1 * multiplication1 ]
       ELSE IF 0 <= s.iDivision2
       THEN [ stack |-> [stack EXCEPT ![d] = [@ EXCEPT !.iDivision2 = @ - 1]],
              pValue1 |-> pValue1 ]
       ELSE ExpandMove(t,
                [stack EXCEPT ![d] = [@ EXCEPT !.pDivision1 = cDivisions1 - 1,
                                               !.iDivision2 = s.cNewDivisions]],
                pValue1 - multiplication1 + multiplication1Next,
                multiplication1Next, d + 1)

\* Expand, lines 402-416: the divisions become 0, 1, ..., cDivisions - 1; the loop
\* is left at the dimension dFail, whose SetCountDivisions fails (0: none fails)
RECURSIVE ExpandDivisionsFrom(_, _, _, _)
ExpandDivisionsFrom(t, acDivisionsPlusOne, d, dFail) ==
    IF d > cDimensionsOf(t) \/ d = dFail THEN t
    ELSE LET cDivisions == acDivisionsPlusOne[d] - 1
             tSet == SetCountDivisions(t, d, cDivisions)
             tNew == [tSet EXCEPT !.m_aDimensions[d].aDivisions =
                        [i \in 1..Len(@) |-> IF i <= cDivisions THEN i - 1 ELSE @[i]]]
         IN IF cDivisions = t.m_aDimensions[d].cDivisions
            THEN ExpandDivisionsFrom(t, acDivisionsPlusOne, d + 1, dFail)
            ELSE ExpandDivisionsFrom(tNew, acDivisionsPlusOne, d + 1, dFail)

\* lines 279-282 without the early return
ExpandIsExpandedNever(t) == FALSE

\* Expand, lines 279-282: "we're already expanded"
ExpandIsExpanded(t) == t.m_bExpanded

\* Expand, lines 279-330: an expanded tensor returns at once; otherwise the stack is
\* set up, the value array is grown and the cursors are put on the last cells; when
\* the value array has to grow and the realloc fails, Expand returns true
ExpandBegin ==
    /\ op.pc \in {"idle", "done"}
    /\ cOps < MaxOps
    /\ cOps' = cOps + 1
    /\ preA' = A
    /\ preB' = B
    /\ \E bRealloc \in BOOLEAN :
       IF ExpandIsExpanded(A)
       THEN /\ op' = [NoOp EXCEPT !.kind = "Expand", !.pc = "done"]
            /\ A' = A
       ELSE LET cValues1 == CountRegions(A)
                cNewValues == Product(acStates)
            IN IF ~bRealloc /\ EnsureValueCapacityGrows(A, cNewValues * A.m_cVectorLength)
               THEN /\ A' = A
                    /\ op' = [NoOp EXCEPT !.kind = "Expand", !.pc = "failed", !.ret = TRUE]
               ELSE /\ A' = EnsureValueCapacity(A, cNewValues * A.m_cVectorLength)
                    /\ op' = [ kind |-> "Expand", pc |-> "values", ret |-> FALSE,
                               pValue1 |-> A.m_cVectorLength * cValues1 - 1,
                               pValue2 |-> 0,
                               pValueTop |-> A.m_cVectorLength * cNewValues - 1,
                               stack |-> ExpandStack(A, acStates) ]
    /\ UNCHANGED <<acStates, B>>
    /\ UNCHANGED histVars
    /\ UNCHANGED pack

\* Expand, lines 335-397: one turn of the outer while(true)
ExpandStep ==
    /\ op.kind = "Expand"
    /\ op.pc = "values"
    /\ LET aValues == CopyVector(A.m_aValues, <<>>, op.pValueTop, op.pValue1, 0,
                                 A.m_cVectorLength)
           pValueTop == op.pValueTop - A.m_cVectorLength
           moved == ExpandMove(A, op.stack, op.pValue1, A.m_cVectorLength, 1)
       IN /\ A' = [A EXCEPT !.m_aValues = aValues]
          /\ IF pValueTop = 0 - 1
             THEN op' = [op EXCEPT !.pc = "divisions", !.pValueTop = pValueTop]
             ELSE op' = [op EXCEPT !.pValueTop = pValueTop,
                                   !.pValue1 = moved.pValue1,
                                   !.stack = moved.stack]
    /\ UNCHANGED <<acStates, B, preA, preB, cOps>>
    /\ UNCHANGED histVars
    /\ UNCHANGED pack

\* Expand, lines 402-419: the divisions of every dimension are set; when a
\* division array has to grow and its realloc fails, Expand returns true at that
\* dimension
ExpandFinish ==
    /\ op.kind = "Expand"
    /\ op.pc = "divisions"
    /\ \E dFail \in 0..cDimensionsOf(A) :
          /\ dFail # 0 => SetCountDivisionsGrows(A, dFail, acStates[dFail] - 1)
          /\ A' = IF dFail = 0
                  THEN [ExpandDivisionsFrom(A, acStates, 1, 0) EXCEPT !.m_bExpanded = TRUE]
                  ELSE ExpandDivisionsFrom(A, acStates, 1, dFail)
          /\ op' = [op EXCEPT !.pc = IF dFail = 0 THEN "done" ELSE "failed",
                              !.ret = (dFail # 0)]
    /\ UNCHANGED <<acStates, B, preA, preB, cOps>>
    /\ UNCHANGED histVars
    /\ UNCHANGED pack

\* --------------------------------------------------------------------- Add

\* lines 465-484 without the divisions that this tensor has left when the other
\* one runs out
RECURSIVE CountNewDivisionsNoTail(_, _, _, _, _, _, _)
CountNewDivisionsNoTail(a1, p1End, a2, p2End, p1Cur, p2Cur, cNewSingleDimensionDivisions) ==
    IF p2End = p2Cur THEN cNewSingleDimensionDivisions
    ELSE IF p1End = p1Cur THEN cNewSingleDimensionDivisions + (p2End - p2Cur)
    ELSE LET d1 == Rd(a1, p1Cur)
             d2 == Rd(a2, p2Cur)
         IN CountNewDivisionsNoTail(a1, p1End, a2, p2End,
                              IF d1 <= d2 THEN p1Cur + 1 ELSE p1Cur,
                              IF d2 <= d1 THEN p2Cur + 1 ELSE p2Cur,
                              cNewSingleDimensionDivisions + 1)

\* Add, lines 465-484: the forward merge-scan that counts the divisions of the union
RECURSIVE CountNewDivisions(_, _, _, _, _, _, _)
CountNewDivisions(a1, p1End, a2, p2End, p1Cur, p2Cur, cNewSingleDimensionDivisions) ==
    IF p2End = p2Cur THEN cNewSingleDimensionDivisions + (p1End - p1Cur)
    ELSE IF p1End = p1Cur THEN cNewSingleDimensionDivisions + (p2End - p2Cur)
    ELSE LET d1 == Rd(a1, p1Cur)
             d2 == Rd(a2, p2Cur)
         IN CountNewDivisions(a1, p1End, a2, p2End,
                              IF d1 <= d2 THEN p1Cur + 1 ELSE p1Cur,
                              IF d2 <= d1 THEN p2Cur + 1 ELSE p2Cur,
                              cNewSingleDimensionDivisions + 1)

\* Add, lines 447-492: the DimensionInfoStack
AddStack(t, rhs) ==
    [d \in 1..cDimensionsOf(t) |->
        [ pDivision1 |-> t.m_aDimensions[d].cDivisions - 1,
          pDivision2 |-> rhs.m_aDimensions[d].cDivisions - 1,
          cNewDivisions |->
              CountNewDivisions(t.m_aDimensions[d].aDivisions, t.m_aDimensions[d].cDivisions,
                                rhs.m_aDimensions[d].aDivisions, rhs.m_aDimensions[d].cDivisions,
                                0, 0, 0) ]]

\* line 551 with < for <=
AddChange1Strict(d1, d2) == IF d2 < d1 THEN 1 ELSE 0

\* Add, lines 551 and 555: which of the two cursors steps over its division
AddChange1(d1, d2) == IF d2 <= d1 THEN 1 ELSE 0
AddChange2(d1, d2) == IF d1 <= d2 THEN 1 ELSE 0

\* Add, lines 539-590: move the cursors to the next cell to write
RECURSIVE AddMove(_, _, _, _, _, _, _, _)
AddMove(t, rhs, stack, pValue1, pValue2, multiplication1, multiplication2, d) ==
    LET s == stack[d]
        aDivisions1 == t.m_aDimensions[d].aDivisions
        aDivisions2 == rhs.m_aDimensions[d].aDivisions
        cDivisions1 == t.m_aDimensions[d].cDivisions
        cDivisions2 == rhs.m_aDimensions[d].cDivisions
        d1 == Rd(aDivisions1, s.pDivision1)
        d2 == Rd(aDivisions2, s.pDivision2)
        change1 == AddChange1(d1, d2)
        change2 == AddChange2(d1, d2)
        multiplication1Next == multiplication1 * (1 + cDivisions1)
        multiplication2Next == multiplication2 * (1 + cDivisions2)
    IN IF 0 <= s.pDivision1
       THEN IF 0 <= s.pDivision2
            THEN [ stack |-> [stack EXCEPT ![d] = [@ EXCEPT !.pDivision1 = @ - change1,
                                                             !.pDivision2 = @ - change2]],
                   pValue1 |-> pValue1 - change1 * multiplication1,
                   pValue2 |-> pValue2 - change2 * multiplication2 ]
            ELSE [ stack |-> [stack EXCEPT ![d] = [@ EXCEPT !.pDivision1 = @ - 1]],
                   pValue1 |-> pValue1 - multiplication1,
                   pValue2 |-> pValue2 ]
       ELSE IF 0 <= s.pDivision2
            THEN [ stack |-> [stack EXCEPT ![d] = [@ EXCEPT !.pDivision2 = @ - 1]],
                   pValue1 |-> pValue1,
                   pValue2 |-> pValue2 - multiplication2 ]
            ELSE AddMove(t, rhs,
                    [stack EXCEPT ![d] = [@ EXCEPT !.pDivision1 = cDivisions1 - 1,
                                                   !.pDivision2 = cDivisions2 - 1]],
                    pValue1 - multiplication1 + multiplication1Next,
                    pValue2 - multiplication2 + multiplication2Next,
                    multiplication1Next, multiplication2Next, d + 1)

\* Add, lines 618-647: the backward merge of the divisions of one dimension, in place
RECURSIVE MergeDivisions(_, _, _, _, _)
MergeDivisions(aDivisions1, aDivisions2, p1Cur, p2Cur, pTopCur) ==
    IF pTopCur = p1Cur THEN aDivisions1
    ELSE IF pTopCur = p2Cur
    THEN [i \in 1..Len(aDivisions1) |->
             IF i <= pTopCur + 1 THEN aDivisions2[i] ELSE aDivisions1[i]]
    ELSE LET d1 == Rd(aDivisions1, p1Cur)
             d2 == Rd(aDivisions2, p2Cur)
             d == IF d1 <= d2 THEN d2 ELSE d1
         IN MergeDivisions(Wr(aDivisions1, pTopCur, d), aDivisions2,
                           IF d2 <= d1 THEN p1Cur - 1 ELSE p1Cur,
                           IF d1 <= d2 THEN p2Cur - 1 ELSE p2Cur,
                           pTopCur - 1)

\* Add, lines 599-652: every dimension gets its new count and its merged
\* divisions; the loop is left at the dimension dFail, whose SetCountDivisions
\* fails (0: none fails)
RECURSIVE AddDivisionsFrom(_, _, _, _, _)
AddDivisionsFrom(t, rhs, stack, d, dFail) ==
    IF d > cDimensionsOf(t) \/ d = dFail THEN t
    ELSE LET cNewDivisions == stack[d].cNewDivisions
             cOriginalDivisionsBeforeSetting == t.m_aDimensions[d].cDivisions
             tSet == SetCountDivisions(t, d, cNewDivisions)
             merged == MergeDivisions(tSet.m_aDimensions[d].aDivisions,
                                      rhs.m_aDimensions[d].aDivisions,
                                      cOriginalDivisionsBeforeSetting - 1,
                                      rhs.m_aDimensions[d].cDivisions - 1,
                                      cNewDivisions - 1)
         IN AddDivisionsFrom([tSet EXCEPT !.m_aDimensions[d].aDivisions = merged],
                             rhs, stack, d + 1, dFail)

\* Add, lines 424-508: count the divisions of the union, grow the value array and
\* put the three cursors on the last cells; when the value array has to grow and the
\* realloc fails, Add returns true
AddBegin ==
    /\ op.pc \in {"idle", "done"}
    /\ cOps < MaxOps
    /\ cOps' = cOps + 1
    /\ preA' = A
    /\ preB' = B
    /\ \E bRealloc \in BOOLEAN :
       LET stack == AddStack(A, B)
           cValues1 == CountRegions(A)
           cValues2 == CountRegions(B)
           cNewValues == Product([d \in 1..cDimensionsOf(A) |-> stack[d].cNewDivisions + 1])
       IN IF ~bRealloc /\ EnsureValueCapacityGrows(A, cNewValues * A.m_cVectorLength)
          THEN /\ A' = A
               /\ op' = [NoOp EXCEPT !.kind = "Add", !.pc = "failed", !.ret = TRUE]
          ELSE /\ A' = EnsureValueCapacity(A, cNewValues * A.m_cVectorLength)
               /\ op' = [ kind |-> "Add", pc |-> "values", ret |-> FALSE,
                          pValue1 |-> A.m_cVectorLength * cValues1 - 1,
                          pValue2 |-> A.m_cVectorLength * cValues2 - 1,
                          pValueTop |-> A.m_cVectorLength * cNewValues - 1,
                          stack |-> stack ]
    /\ UNCHANGED <<acStates, B>>
    /\ UNCHANGED histVars
    /\ UNCHANGED pack

\* Add, lines 512-591: one turn of the outer while(true)
AddStep ==
    /\ op.kind = "Add"
    /\ op.pc = "values"
    /\ LET aValues == CopyVector(A.m_aValues, B.m_aValues, op.pValueTop, op.pValue1,
                                 op.pValue2, A.m_cVectorLength)
           pValueTop == op.pValueTop - A.m_cVectorLength
           moved == AddMove(A, B, op.stack, op.pValue1, op.pValue2,
                            A.m_cVectorLength, A.m_cVectorLength, 1)
       IN /\ A' = [A EXCEPT !.m_aValues = aValues]
          /\ IF pValueTop = 0 - 1
             THEN op' = [op EXCEPT !.pc = "divisions", !.pValueTop = pValueTop]
             ELSE op' = [op EXCEPT !.pValueTop = pValueTop,
                                   !.pValue1 = moved.pValue1,
                                   !.pValue2 = moved.pValue2,
                                   !.stack = moved.stack]
    /\ UNCHANGED <<acStates, B, preA, preB, cOps>>
    /\ UNCHANGED histVars
    /\ UNCHANGED pack

\* Add, lines 597-654: the divisions of every dimension are merged; when a division
\* array has to grow and its realloc fails, Add returns true at that dimension
AddFinish ==
    /\ op.kind = "Add"
    /\ op.pc = "divisions"
    /\ \E dFail \in 0..cDimensionsOf(A) :
          /\ dFail # 0 => SetCountDivisionsGrows(A, dFail, op.stack[dFail].cNewDivisions)
          /\ A' = AddDivisionsFrom(A, B, op.stack, 1, dFail)
          /\ op' = [op EXCEPT !.pc = IF dFail = 0 THEN "done" ELSE "failed",
                              !.ret = (dFail # 0)]
    /\ UNCHANGED <<acStates, B, preA, preB, cOps>>
    /\ UNCHANGED histVars
    /\ UNCHANGED pack

\* -------------------------------------------------------- Copy and Multiply

\* Copy, lines 185-192: every dimension gets the count and the divisions of rhs; the
\* loop is left at the dimension dFail, whose SetCountDivisions fails
RECURSIVE CopyDivisionsFrom(_, _, _, _)
CopyDivisionsFrom(t, rhs, d, dFail) ==
    IF d > cDimensionsOf(t) \/ d = dFail THEN t
    ELSE LET cDivisions == rhs.m_aDimensions[d].cDivisions
             tSet == SetCountDivisions(t, d, cDivisions)
         IN CopyDivisionsFrom(
               [tSet EXCEPT !.m_aDimensions[d].aDivisions =
                   [i \in 1..Len(@) |-> IF i <= cDivisions
                                        THEN rhs.m_aDimensions[d].aDivisions[i] ELSE @[i]]],
               rhs, d + 1, dFail)

\* line 198 left out
CopyIsExpandedKept(t, rhs) == t.m_bExpanded

\* Copy, line 198
CopyIsExpanded(t, rhs) == rhs.m_bExpanded

\* Copy, lines 181-200; iFail names the allocation that fails: 0 for none, d for the
\* divisions of the dimension d, cDimensions + 1 for the values
Copy(t, rhs, iFail) ==
    LET cValues == t.m_cVectorLength * CountRegions(rhs)
        tCut == CopyDivisionsFrom(t, rhs, 1, iFail)
        tCap == EnsureValueCapacity(tCut, cValues)
    IN IF iFail # 0 THEN tCut
       ELSE [tCap EXCEPT !.m_aValues = [i \in 1..Len(@) |->
                                          IF i <= cValues THEN rhs.m_aValues[i] ELSE @[i]],
                         !.m_bExpanded = CopyIsExpanded(t, rhs)]

\* the allocation iFail of Copy is a realloc that grows an array
CopyGrows(t, rhs, iFail) ==
    IF iFail <= cDimensionsOf(t)
    THEN SetCountDivisionsGrows(t, iFail, rhs.m_aDimensions[iFail].cDivisions)
    ELSE EnsureValueCapacityGrows(t, t.m_cVectorLength * CountRegions(rhs))

\* A.Copy(B), lines 181-200
CopyCall ==
    /\ op.pc \in {"idle", "done"}
    /\ cOps < MaxOps
    /\ cOps' = cOps + 1
    /\ preA' = A
    /\ preB' = B
    /\ \E iFail \in 0..(cDimensionsOf(A) + 1) :
          /\ iFail # 0 => CopyGrows(A, B, iFail)
          /\ A' = Copy(A, B, iFail)
          /\ op' = [NoOp EXCEPT !.kind = "Copy",
                                !.pc = IF iFail = 0 THEN "done" ELSE "failed",
                                !.ret = (iFail # 0)]
    /\ UNCHANGED <<acStates, B>>
    /\ UNCHANGED histVars
    /\ UNCHANGED pack

\* Reset, lines 134-141: no divisions, the one value vector zero, not expanded
Reset(t) ==
    [t EXCEPT !.m_aDimensions = [d \in 1..Len(@) |-> [@[d] EXCEPT !.cDivisions = 0]],
              !.m_aValues = [i \in 1..Len(@) |-> IF i <= t.m_cVectorLength THEN 0 ELSE @[i]],
              !.m_bExpanded = FALSE]

\* A.Reset()
ResetCall ==
    /\ op.pc \in {"idle", "done"}
    /\ cOps < MaxOps
    /\ cOps' = cOps + 1
    /\ preA' = A
    /\ preB' = B
    /\ A' = Reset(A)
    /\ op' = [NoOp EXCEPT !.kind = "Reset", !.pc = "done"]
    /\ UNCHANGED <<acStates, B>>
    /\ UNCHANGED histVars
    /\ UNCHANGED pack

\* Multiply that also leaves the tensor compact
MultiplyCompacts(t, v) ==
    [t EXCEPT !.m_aValues = [i \in 1..Len(@) |->
                               IF i <= CountRegions(t) * t.m_cVectorLength
                               THEN @[i] * v ELSE @[i]],
              !.m_bExpanded = FALSE]

\* Multiply, lines 262-275: every value in use is multiplied by v
Multiply(t, v) ==
    [t EXCEPT !.m_aValues = [i \in 1..Len(@) |->
                               IF i <= CountRegions(t) * t.m_cVectorLength
                               THEN @[i] * v ELSE @[i]]]

\* the factors of Multiply
Factors == {2}

\* A.Multiply(v)
MultiplyCall ==
    /\ op.pc \in {"idle", "done"}
    /\ cOps < MaxOps
    /\ cOps' = cOps + 1
    /\ preA' = A
    /\ preB' = B
    /\ \E v \in Factors :
          /\ A' = Multiply(A, v)
          /\ op' = [NoOp EXCEPT !.kind = "Multiply", !.pc = "done"]
    /\ UNCHANGED <<acStates, B>>
    /\ UNCHANGED histVars
    /\ UNCHANGED pack

\* IsEqual, lines 657-701: the counts and the divisions of every dimension and the
\* values in use are the same
IsEqual(t, rhs) ==
    /\ cDimensionsOf(t) = cDimensionsOf(rhs)
    /\ \A d \in 1..cDimensionsOf(t) : Divisions(t, d) = Divisions(rhs, d)
    /\ Values(t) = Values(rhs)

\* ------------------------------------------------- the tensor specification

\* the grids and vector lengths the tensors are drawn over
TensorShapes == { [cs |-> <<5>>, cVectorLength |-> 1],
                  [cs |-> <<4>>, cVectorLength |-> 2],
                  [cs |-> <<3, 2>>, cVectorLength |-> 1],
                  [cs |-> <<2, 2>>, cVectorLength |-> 2] }

\* value i of a drawn tensor is scale * (i + 1): with scale 10 for A and 1 for B,
\* every sum names the two cells it came from; scale 0 is the zero tensor
AScales == {10}
BScales == {0, 1}

RECURSIVE SortedSeq(_)
SortedSeq(S) ==
    IF S = {} THEN <<>>
    ELSE LET m == CHOOSE x \in S : \A y \in S : x <= y
         IN <<m>> \o SortedSeq(S \ {m})

\* the strictly ascending division arrays of an axis with cStates bins: a division d
\* separates bin d from bin d + 1, so the divisions lie in 0..cStates-2
CutChoices(cStates) ==
    { SortedSeq(S) : S \in { T \in SUBSET (0..(cStates - 2)) : Cardinality(T) <= MaxCuts } }

AllCutChoices(cs) ==
    { c \in [1..Len(cs) -> UNION { CutChoices(cs[d]) : d \in 1..Len(cs) }] :
        \A d \in 1..Len(cs) : c[d] \in CutChoices(cs[d]) }

IdentityCuts(cs) == [d \in 1..Len(cs) |-> [i \in 1..(cs[d] - 1) |-> i - 1]]

RECURSIVE WriteDivisionsFrom(_, _, _)
WriteDivisionsFrom(t, cuts, d) ==
    IF d > Len(cuts) THEN t
    ELSE LET tSet == SetCountDivisions(t, d, Len(cuts[d]))
         IN WriteDivisionsFrom(
               [tSet EXCEPT !.m_aDimensions[d].aDivisions =
                   [i \in 1..Len(@) |-> IF i <= Len(cuts[d]) THEN cuts[d][i] ELSE @[i]]],
               cuts, d + 1)

\* a tensor as its owner builds it: Allocate, SetCountDivisions and the divisions on
\* every axis, EnsureValueCapacity and the values (as TrainMultiDimensional does)
MakeTensor(cs, cVectorLength, cuts, scale, bExpanded) ==
    LET tCut == WriteDivisionsFrom(Allocate(Len(cs), cVectorLength), cuts, 1)
        cValues == CountRegions(tCut) * cVectorLength
        tCap == EnsureValueCapacity(tCut, cValues)
    IN [tCap EXCEPT !.m_aValues = [i \in 1..Len(@) |->
                                     IF i <= cValues THEN scale * i ELSE @[i]],
                    !.m_bExpanded = bExpanded]

\* the histogram part at rest
HistIdle ==
    /\ hStates = <<>>
    /\ aDebugCopy = <<>>
    /\ aBinnedBuckets = <<>>
    /\ fastTotalState = <<>>
    /\ pBinnedBucket = 0
    /\ hpc = "off"
    /\ cCases = 0
    /\ query = <<>>
    /\ train = <<>>

InitTensor ==
    /\ \E shape \in TensorShapes :
         /\ acStates = shape.cs
         /\ \E cutsA \in AllCutChoices(shape.cs), scaleA \in AScales :
              A = MakeTensor(shape.cs, shape.cVectorLength, cutsA, scaleA, FALSE)
         /\ \/ \E cutsB \in AllCutChoices(shape.cs), scaleB \in BScales :
                 B = MakeTensor(shape.cs, shape.cVectorLength, cutsB, scaleB, FALSE)
            \/ B = MakeTensor(shape.cs, shape.cVectorLength, IdentityCuts(shape.cs), 1, TRUE)
    /\ op = NoOp
    /\ preA = A
    /\ preB = B
    /\ cOps = 0
    /\ HistIdle
    /\ PackIdle

NextTensor ==
    \/ ExpandBegin
    \/ ExpandStep
    \/ ExpandFinish
    \/ AddBegin
    \/ AddStep
    \/ AddFinish
    \/ CopyCall
    \/ ResetCall
    \/ MultiplyCall

SpecTensor == InitTensor /\ [][NextTensor]_vars

\* Expand and Add run on one thread from their first statement to their return: a
\* loop whose next turn can be taken takes it
FairSpecTensor == SpecTensor /\ WF_vars(ExpandStep) /\ WF_vars(AddStep)

\* ------------------------------------------- BinnedBucket (regression build)
\* a bucket of a regression histogram: cVectorLength is 1, so the vector of
\* prediction statistics is the one sumResidualError
ZeroBucket == [cCasesInBucket |-> 0, sumResidualError |-> 0]

UninitBucket == [cCasesInBucket |-> Uninit, sumResidualError |-> Uninit]

BucketAdd(bucket, other) ==
    [cCasesInBucket |-> bucket.cCasesInBucket + other.cCasesInBucket,
     sumResidualError |-> bucket.sumResidualError + other.sumResidualError]

BucketSubtract(bucket, other) ==
    [cCasesInBucket |-> bucket.cCasesInBucket - other.cCasesInBucket,
     sumResidualError |-> bucket.sumResidualError - other.sumResidualError]

\* the cases a sampling set can hold: the residual of the case and the
\* number of times the sampling set drew it
CaseKinds == { [residual |-> 0 - 1, weight |-> 1], [residual |-> 2, weight |-> 1] }

\* the residuals decide nothing but the split of a pair, so that the grids of more
\* than two dimensions, which are not split, get cases of one kind
CaseKindsOf(cs) == IF Len(cs) <= 2 THEN CaseKinds
                   ELSE { [residual |-> 2, weight |-> 1] }

\* the grids of the attribute combinations
HistShapes == { <<3>>, <<2, 2>>, <<2, 3>>, <<3, 2>>, <<2, 2, 2>> }

\* the grids on which GetTotals is also called from outside the splitter
QueryShapes == { <<3>>, <<2, 2>>, <<2, 2, 2>> }

\* most cases binned into the histogram of a grid
MaxCasesOf(cs) == IF cs \in QueryShapes THEN MaxQueryCases ELSE MaxCases

\* TrainMultiDimensional, lines 866-871: the size of the main cube and of the buffer
cTotalBucketsMainSpaceOf(cs) == Product(cs)
cTotalBucketsOf(cs) == 1 + SumSeq([d \in 1..Len(cs) |-> Product(SubSeq(cs, 1, d))])

\* RecursiveBinDataSetTraining: one case of the sampling set goes into its bucket
BinCase ==
    /\ hpc = "bin"
    /\ cCases < MaxCasesOf(hStates)
    /\ \E x \in BinTuples(hStates), kind \in CaseKindsOf(hStates) :
          LET iBucket == DirectIndex(hStates, x)
              case == [cCasesInBucket |-> kind.weight,
                       sumResidualError |-> kind.weight * kind.residual]
          IN aBinnedBuckets' = Wr(aBinnedBuckets, iBucket,
                                  BucketAdd(Rd(aBinnedBuckets, iBucket), case))
    /\ cCases' = cCases + 1
    /\ UNCHANGED <<hStates, aDebugCopy, fastTotalState, pBinnedBucket, hpc, query,
                   train>>
    /\ UNCHANGED tensorVars
    /\ UNCHANGED pack

\* two sampling sets of the pair (3 bins, 2 bins): six cases, one for every tuple of
\* bins, each drawn once; the residual is +1 where the second bin is 0 and -1 where
\* it is 1 in the first set, and alternates 1, -1, 1, -1, 1, -1 in the second
DataSetBins == << <<0, 0>>, <<1, 0>>, <<2, 0>>, <<0, 1>>, <<1, 1>>, <<2, 1>> >>

DataSetBySecondBin ==
    [i \in 1..Len(DataSetBins) |->
        [bins |-> DataSetBins[i], weight |-> 1,
         residual |-> IF DataSetBins[i][2] = 0 THEN 1 ELSE 0 - 1]]

DataSetAlternating ==
    [i \in 1..Len(DataSetBins) |->
        [bins |-> DataSetBins[i], weight |-> 1,
         residual |-> IF i % 2 = 1 THEN 1 ELSE 0 - 1]]

DataSets == { DataSetBySecondBin, DataSetAlternating }

\* RecursiveBinDataSetTraining: the buckets after the cases i..Len(dataSet) of a
\* sampling set have gone into theirs
RECURSIVE BinFrom(_, _, _, _)
BinFrom(aBuckets, cs, dataSet, i) ==
    IF i > Len(dataSet) THEN aBuckets
    ELSE LET iBucket == DirectIndex(cs, dataSet[i].bins)
             case == [cCasesInBucket |-> dataSet[i].weight,
                      sumResidualError |-> dataSet[i].weight * dataSet[i].residual]
         IN BinFrom(Wr(aBuckets, iBucket, BucketAdd(Rd(aBuckets, iBucket), case)),
                    cs, dataSet, i + 1)

\* RecursiveBinDataSetTraining: a whole sampling set goes into the buckets
BinDataSet ==
    /\ hpc = "bin"
    /\ cCases = 0
    /\ hStates = <<3, 2>>
    /\ \E dataSet \in DataSets :
          /\ aBinnedBuckets' = BinFrom(aBinnedBuckets, hStates, dataSet, 1)
          /\ cCases' = Len(dataSet)
    /\ UNCHANGED <<hStates, aDebugCopy, fastTotalState, pBinnedBucket, hpc, query,
                   train>>
    /\ UNCHANGED tensorVars
    /\ UNCHANGED pack

\* GetTotalsDebugSlow: the sum of the buckets of the box aiStart..aiLast, walked
\* cell by cell with the first dimension fastest
RECURSIVE GetTotalsDebugSlowWalk(_, _, _, _, _, _, _)
GetTotalsDebugSlowWalk(aBuckets, cs, aiStart, aiLast, aiDimensions, iBin, ret) ==
    LET ret2 == BucketAdd(ret, Rd(aBuckets, iBin))
        \* lines 71-87: the first dimension that is not at its last bin
        carry == { d \in 1..Len(cs) : \A k \in 1..d : aiDimensions[k] = aiLast[k] }
        iDimension == Cardinality(carry) + 1
        iBinBack == iBin - SumSeq([k \in 1..Len(cs) |->
                                     IF k \in carry
                                     THEN (aiLast[k] - aiStart[k]) * Product(SubSeq(cs, 1, k - 1))
                                     ELSE 0])
    IN IF iDimension > Len(cs) THEN ret2
       ELSE GetTotalsDebugSlowWalk(aBuckets, cs, aiStart, aiLast,
               [k \in 1..Len(cs) |-> IF k \in carry THEN aiStart[k]
                                     ELSE IF k = iDimension THEN aiDimensions[k] + 1
                                     ELSE aiDimensions[k]],
               iBinBack + Product(SubSeq(cs, 1, iDimension - 1)), ret2)

\* GetTotalsDebugSlow, lines 55-57: what it asserts of the box
GetTotalsDebugSlowAsserts(cs, aiStart, aiLast) ==
    \A d \in 1..Len(cs) : aiStart[d] < cs[d] /\ aiLast[d] < cs[d] /\ aiStart[d] <= aiLast[d]

GetTotalsDebugSlow(aBuckets, cs, aiStart, aiLast) ==
    GetTotalsDebugSlowWalk(aBuckets, cs, aiStart, aiLast, aiStart,
                           DirectIndex(cs, aiStart), ZeroBucket)

\* BuildFastTotals, lines 397-432: the ring of every dimension lies behind the
\* main cube, each as large as the product of the cStates of the lower dimensions
FastTotalStateInitialize(cs, cTotalBuckets) ==
    [d \in 1..Len(cs) |->
        LET pDimensionalBucket ==
               cTotalBuckets + SumSeq([k \in 1..(d - 1) |-> Product(SubSeq(cs, 1, k - 1))])
        IN [ pDimensionalCur |-> pDimensionalBucket,
             pDimensionalWrap |-> pDimensionalBucket + Product(SubSeq(cs, 1, d - 1)),
             pDimensionalFirst |-> pDimensionalBucket,
             iCur |-> 0,
             cStates |-> cs[d] ]]

\* TrainMultiDimensional, lines 897-913: the debug copy of the buckets is taken and
\* BuildFastTotals sets its state up
BuildFastTotalsBegin ==
    /\ hpc = "bin"
    /\ aDebugCopy' = SubSeq(aBinnedBuckets, 1, cTotalBucketsMainSpaceOf(hStates))
    /\ fastTotalState' = FastTotalStateInitialize(hStates, cTotalBucketsMainSpaceOf(hStates))
    /\ pBinnedBucket' = 0
    /\ hpc' = "totals"
    /\ UNCHANGED <<hStates, aBinnedBuckets, cCases, query, train>>
    /\ UNCHANGED tensorVars
    /\ UNCHANGED pack

\* BuildFastTotals, lines 444-453: the bucket is folded into the ring of the last
\* dimension, that ring entry into the ring of the dimension before, and so on, and
\* every ring cursor steps on, wrapping at the end of its ring
RECURSIVE FoldRings(_, _, _, _)
FoldRings(aBuckets, fts, pAddPrev, iDimension) ==
    IF iDimension = 0 THEN [aBuckets |-> aBuckets, fts |-> fts, pAddPrev |-> pAddPrev]
    ELSE LET pAddTo == fts[iDimension].pDimensionalCur
             pNext == IF pAddTo + 1 = fts[iDimension].pDimensionalWrap
                      THEN fts[iDimension].pDimensionalFirst
                      ELSE pAddTo + 1
         IN FoldRings(Wr(aBuckets, pAddTo, BucketAdd(Rd(aBuckets, pAddTo), Rd(aBuckets, pAddPrev))),
                      [fts EXCEPT ![iDimension].pDimensionalCur = pNext],
                      pAddTo, iDimension - 1)

\* line 479 without the memset
ZeroRingSkipped(aBuckets, pDimensionalFirst, pDimensionalWrap) == aBuckets

\* BuildFastTotals, line 479: the memset of one ring
ZeroRing(aBuckets, pDimensionalFirst, pDimensionalWrap) ==
    [i \in 1..Len(aBuckets) |->
        IF pDimensionalFirst <= i - 1 /\ i - 1 < pDimensionalWrap
        THEN ZeroBucket ELSE aBuckets[i]]

\* BuildFastTotals, lines 470-489: iCur of the first dimension steps on; a dimension
\* that reaches its cStates starts over, its ring is zeroed and the next dimension
\* steps on; the walk is over when the last dimension starts over
RECURSIVE AdvanceFastTotalState(_, _, _)
AdvanceFastTotalState(aBuckets, fts, d) ==
    IF fts[d].cStates # fts[d].iCur + 1
    THEN [aBuckets |-> aBuckets, fts |-> [fts EXCEPT ![d].iCur = @ + 1], bReturn |-> FALSE]
    ELSE LET aBuckets2 == ZeroRing(aBuckets, fts[d].pDimensionalFirst, fts[d].pDimensionalWrap)
             fts2 == [fts EXCEPT ![d].iCur = 0]
         IN IF d = Len(fts)
            THEN [aBuckets |-> aBuckets2, fts |-> fts2, bReturn |-> TRUE]
            ELSE AdvanceFastTotalState(aBuckets2, fts2, d + 1)

\* BuildFastTotals, lines 440-490: one turn of the loop over the cells of the cube;
\* the build has the assertions compiled out (NDEBUG) or in
BuildFastTotalsStep ==
    /\ hpc = "totals"
    /\ \E NDEBUG \in BOOLEAN :
       LET folded == FoldRings(aBinnedBuckets, fastTotalState, pBinnedBucket, Len(hStates))
           copied == Wr(folded.aBuckets, pBinnedBucket, Rd(folded.aBuckets, folded.pAddPrev))
           \* lines 457-464: the debug build compares the count with the slow sum
           debugTotal == GetTotalsDebugSlow(aDebugCopy, hStates,
                             [d \in 1..Len(hStates) |-> 0],
                             [d \in 1..Len(hStates) |-> folded.fts[d].iCur])
           bAssert == \/ NDEBUG
                      \/ debugTotal.cCasesInBucket = Rd(copied, pBinnedBucket).cCasesInBucket
           advanced == AdvanceFastTotalState(copied, folded.fts, 1)
       IN IF ~bAssert
          THEN /\ hpc' = "assert"
               /\ aBinnedBuckets' = copied
               /\ fastTotalState' = folded.fts
               /\ UNCHANGED pBinnedBucket
          ELSE /\ aBinnedBuckets' = advanced.aBuckets
               /\ fastTotalState' = advanced.fts
               /\ pBinnedBucket' = pBinnedBucket + 1
               /\ hpc' = IF advanced.bReturn THEN "built" ELSE "totals"
    /\ UNCHANGED <<hStates, aDebugCopy, cCases, query, train>>
    /\ UNCHANGED tensorVars
    /\ UNCHANGED pack

\* BuildFastTotals, lines 440-490, run from the cell pBucket to the end with the
\* assertions compiled out
RECURSIVE BuildFastTotalsFrom(_, _, _)
BuildFastTotalsFrom(aBuckets, fts, pBucket) ==
    LET folded == FoldRings(aBuckets, fts, pBucket, Len(fts))
        copied == Wr(folded.aBuckets, pBucket, Rd(folded.aBuckets, folded.pAddPrev))
        advanced == AdvanceFastTotalState(copied, folded.fts, 1)
    IN IF advanced.bReturn THEN advanced.aBuckets
       ELSE BuildFastTotalsFrom(advanced.aBuckets, advanced.fts, pBucket + 1)

\* BuildFastTotals, lines 385-491
BuildFastTotals(aBuckets, cs) ==
    BuildFastTotalsFrom(aBuckets,
                        FastTotalStateInitialize(cs, cTotalBucketsMainSpaceOf(cs)), 0)

\* ------------------------------------------ BuildFastTotalsZeroMemoryIncrease
\* lines 527-543: multipleTotal of a dimension is minus the product of the cStates
\* up to it; multipliedIndexCur0 is the register that holds the index of the first
\* dimension
ZeroMemoryInitialize(cs) ==
    [ currentIndexAndCountStates |->
          [d \in 1..Len(cs) |-> [ multipliedIndexCur |-> 0,
                                  multipleTotal |-> 0 - Product(SubSeq(cs, 1, d)) ]],
      multipliedIndexCur0 |-> 0 ]

\* lines 606-616: the offset and the sign of one permutation, or the skip of it when
\* a dimension whose bit is set is at its bin 0
RECURSIVE ZeroMemoryCorner(_, _, _, _, _)
ZeroMemoryCorner(states, j, permuteVectorDestroy, evenOdd, offsetPointer) ==
    IF 0 = states[j].multipliedIndexCur /\ permuteVectorDestroy % 2 = 1
    THEN [bSkip |-> TRUE, evenOdd |-> evenOdd, offsetPointer |-> offsetPointer]
    ELSE LET offsetPointer2 == IF permuteVectorDestroy % 2 = 1
                               THEN states[j - 1].multipleTotal + offsetPointer
                               ELSE offsetPointer
             evenOdd2 == (evenOdd + permuteVectorDestroy) % 2
         IN IF permuteVectorDestroy \div 2 # 0
            THEN ZeroMemoryCorner(states, j + 1, permuteVectorDestroy \div 2, evenOdd2,
                                  offsetPointer2)
            ELSE [bSkip |-> FALSE, evenOdd |-> evenOdd2, offsetPointer |-> offsetPointer2]

\* lines 599-625: the buckets of the permutations are added to or subtracted from
\* the bucket at pBucket
RECURSIVE ZeroMemoryPermute(_, _, _, _)
ZeroMemoryPermute(aBuckets, states, pBucket, permuteVector) ==
    LET corner == ZeroMemoryCorner(states, 2, permuteVector, 0, 0)
        other == Rd(aBuckets, pBucket + corner.offsetPointer)
        aBuckets2 == IF corner.bSkip THEN aBuckets
                     ELSE IF corner.evenOdd % 2 # 0
                     THEN Wr(aBuckets, pBucket, BucketAdd(Rd(aBuckets, pBucket), other))
                     ELSE Wr(aBuckets, pBucket, BucketSubtract(Rd(aBuckets, pBucket), other))
    IN IF 2 ^ (Len(states) - 1) # permuteVector + 1
       THEN ZeroMemoryPermute(aBuckets2, states, pBucket, permuteVector + 1)
       ELSE aBuckets2

\* lines 654-672: the dimensions above the first step on, each starting over when
\* it reaches its multipleTotal; the walk is over when the last one starts over
RECURSIVE ZeroMemoryAdvance(_, _, _)
ZeroMemoryAdvance(states, j, multipleTotal) ==
    LET multipliedIndexCur == states[j].multipliedIndexCur + multipleTotal
    IN IF multipliedIndexCur # states[j].multipleTotal
       THEN [states |-> [states EXCEPT ![j].multipliedIndexCur = multipliedIndexCur],
             bReturn |-> FALSE]
       ELSE IF j = Len(states)
       THEN [states |-> [states EXCEPT ![j].multipliedIndexCur = 0], bReturn |-> TRUE]
       ELSE ZeroMemoryAdvance([states EXCEPT ![j].multipliedIndexCur = 0], j + 1,
                              states[j].multipleTotal)

\* line 651 without the Zero
ZeroPreviousSkipped(aBuckets, pPrevious) == aBuckets

\* line 651: pPrevious->Zero
ZeroPrevious(aBuckets, pPrevious) == Wr(aBuckets, pPrevious, ZeroBucket)

\* lines 629-636: the bins that the cell has on every dimension, each the quotient
\* of two negative numbers
ZeroMemoryLast(zm) ==
    [d \in 1..Len(zm.currentIndexAndCountStates) |->
        IF d = 1 THEN 0 - zm.multipliedIndexCur0
        ELSE (0 - zm.currentIndexAndCountStates[d].multipliedIndexCur)
                \div (0 - zm.currentIndexAndCountStates[d - 1].multipleTotal)]

\* a build of TrainMultiDimensional that calls BuildFastTotalsZeroMemoryIncrease in
\* line 909, for two dimensions or more (line 559): lines 897-908 and 518-565
BuildFastTotalsZeroMemoryIncreaseBegin ==
    /\ hpc = "bin"
    /\ 2 <= Len(hStates)
    /\ aDebugCopy' = SubSeq(aBinnedBuckets, 1, cTotalBucketsMainSpaceOf(hStates))
    /\ fastTotalState' = ZeroMemoryInitialize(hStates)
    /\ pBinnedBucket' = 0
    /\ hpc' = "totalsZeroMemory"
    /\ UNCHANGED <<hStates, aBinnedBuckets, cCases, query, train>>
    /\ UNCHANGED tensorVars
    /\ UNCHANGED pack

\* BuildFastTotalsZeroMemoryIncrease, lines 570-673: one turn of the loop over the
\* cells of the cube; the build has the assertions compiled out (NDEBUG) or in
BuildFastTotalsZeroMemoryIncreaseStep ==
    /\ hpc = "totalsZeroMemory"
    /\ \E NDEBUG \in BOOLEAN :
       LET states == fastTotalState.currentIndexAndCountStates
           pPrevious == cTotalBucketsMainSpaceOf(hStates)
           \* lines 584-597: the bucket and pPrevious become their sum
           summed == BucketAdd(Rd(aBinnedBuckets, pBinnedBucket),
                               Rd(aBinnedBuckets, pPrevious))
           running == Wr(Wr(aBinnedBuckets, pBinnedBucket, summed), pPrevious, summed)
           permuted == ZeroMemoryPermute(running, states, pBinnedBucket, 1)
           \* lines 627-638: the debug build compares the count with the slow sum
           debugTotal == GetTotalsDebugSlow(aDebugCopy, hStates,
                                            [d \in 1..Len(hStates) |-> 0],
                                            ZeroMemoryLast(fastTotalState))
           bAssert == \/ NDEBUG
                      \/ debugTotal.cCasesInBucket
                            = Rd(permuted, pBinnedBucket).cCasesInBucket
           multipliedIndexCur0 == fastTotalState.multipliedIndexCur0 - 1
           advanced == ZeroMemoryAdvance(states, 2, states[1].multipleTotal)
       IN IF ~bAssert
          THEN /\ hpc' = "assert"
               /\ aBinnedBuckets' = permuted
               /\ UNCHANGED <<fastTotalState, pBinnedBucket>>
          ELSE IF multipliedIndexCur0 # states[1].multipleTotal
          THEN /\ aBinnedBuckets' = permuted
               /\ fastTotalState' = [fastTotalState EXCEPT
                                        !.multipliedIndexCur0 = multipliedIndexCur0]
               /\ pBinnedBucket' = pBinnedBucket + 1
               /\ UNCHANGED hpc
          ELSE /\ aBinnedBuckets' = ZeroPrevious(permuted, pPrevious)
               /\ fastTotalState' = [ currentIndexAndCountStates |-> advanced.states,
                                      multipliedIndexCur0 |-> 0 ]
               /\ pBinnedBucket' = pBinnedBucket + 1
               /\ hpc' = IF advanced.bReturn THEN "builtZeroMemory" ELSE "totalsZeroMemory"
    /\ UNCHANGED <<hStates, aDebugCopy, cCases, query, train>>
    /\ UNCHANGED tensorVars
    /\ UNCHANGED pack

\* ----------------------------------------------------------------- GetTotals
\* GetTotals, lines 735-753 (and 707-713 for the direction vector zero): every
\* dimension whose bit is set gets a TotalsDimension, every other one adds to
\* startingOffset
TotalsLast(multipleTotalInitialize, cStates) == multipleTotalInitialize * (cStates - 1)

RECURSIVE TotalsInitialize(_, _, _, _, _, _, _)
TotalsInitialize(cs, aiPoint, d, directionVectorDestroy, multipleTotalInitialize, startingOffset, totalsDimension) ==
    IF d > Len(cs)
    THEN [startingOffset |-> startingOffset, totalsDimension |-> totalsDimension]
    ELSE IF directionVectorDestroy % 2 # 0
    THEN LET cLast == TotalsLast(multipleTotalInitialize, cs[d])
         IN TotalsInitialize(cs, aiPoint, d + 1, directionVectorDestroy \div 2,
                multipleTotalInitialize + cLast, startingOffset,
                Append(totalsDimension,
                       [cIncrement |-> multipleTotalInitialize * aiPoint[d], cLast |-> cLast]))
    ELSE TotalsInitialize(cs, aiPoint, d + 1, directionVectorDestroy \div 2,
                multipleTotalInitialize * cs[d],
                startingOffset + multipleTotalInitialize * aiPoint[d], totalsDimension)

\* line 762 with evenOdd starting at 0
EvenOddStartZero(cAllBits) == 0

\* GetTotals, line 762: evenOdd starts as the number of set bits
EvenOddStart(cAllBits) == cAllBits

\* line 766 without the flip
EvenOddFlipNever(evenOdd, permuteVectorDestroy) == evenOdd % 2

\* GetTotals, line 766: the lowest bit of evenOdd flips when the lowest bit of the
\* permutation is set (only the lowest bit is read afterwards)
EvenOddFlip(evenOdd, permuteVectorDestroy) == (evenOdd + permuteVectorDestroy) % 2

\* GetTotals, lines 765-771: the offset and the sign of one corner
RECURSIVE TotalsCorner(_, _, _, _, _)
TotalsCorner(totalsDimension, k, permuteVectorDestroy, evenOdd, offsetPointer) ==
    IF k > Len(totalsDimension) THEN [evenOdd |-> evenOdd, offsetPointer |-> offsetPointer]
    ELSE TotalsCorner(totalsDimension, k + 1, permuteVectorDestroy \div 2,
                      EvenOddFlip(evenOdd, permuteVectorDestroy),
                      offsetPointer + (IF permuteVectorDestroy % 2 # 0
                                       THEN totalsDimension[k].cLast
                                       ELSE totalsDimension[k].cIncrement))

\* GetTotals, lines 759-785: the corners are added or subtracted one by one
RECURSIVE TotalsPermute(_, _, _, _, _)
TotalsPermute(aBuckets, startingOffset, totalsDimension, permuteVector, ret) ==
    LET cAllBits == Len(totalsDimension)
        corner == TotalsCorner(totalsDimension, 1, permuteVector, EvenOddStart(cAllBits),
                               startingOffset)
        bucket == Rd(aBuckets, corner.offsetPointer)
        ret2 == IF corner.evenOdd % 2 # 0 THEN BucketSubtract(ret, bucket)
                ELSE BucketAdd(ret, bucket)
    IN IF (permuteVector + 1) \div (2 ^ cAllBits) # 0 THEN ret2
       ELSE TotalsPermute(aBuckets, startingOffset, totalsDimension, permuteVector + 1, ret2)

GetTotals(aBuckets, cs, aiPoint, directionVector) ==
    LET init == TotalsInitialize(cs, aiPoint, 1, directionVector, 1, 0, <<>>)
    IN IF directionVector = 0 THEN Rd(aBuckets, init.startingOffset)
       ELSE TotalsPermute(aBuckets, init.startingOffset, init.totalsDimension, 0, ZeroBucket)

\* CompareTotalsDebug, lines 97-110: the box of a point and a direction vector
CompareTotalsStart(cs, aiPoint, directionVector) ==
    [d \in 1..Len(cs) |->
        IF (directionVector \div (2 ^ (d - 1))) % 2 # 0 THEN aiPoint[d] + 1 ELSE 0]

CompareTotalsLast(cs, aiPoint, directionVector) ==
    [d \in 1..Len(cs) |->
        IF (directionVector \div (2 ^ (d - 1))) % 2 # 0 THEN cs[d] - 1 ELSE aiPoint[d]]

\* what the debug build asserts on a call of GetTotals: line 696, and, when the
\* direction vector is not zero, CompareTotalsDebug with the asserts of
\* GetTotalsDebugSlow and the comparison of the counts in line 117
GetTotalsAsserts(aBuckets, aCopy, cs, aiPoint, directionVector) ==
    /\ 2 <= Len(cs)
    /\ directionVector # 0 =>
          LET aiStart == CompareTotalsStart(cs, aiPoint, directionVector)
              aiLast == CompareTotalsLast(cs, aiPoint, directionVector)
          IN /\ GetTotalsDebugSlowAsserts(cs, aiStart, aiLast)
             /\ GetTotals(aBuckets, cs, aiPoint, directionVector).cCasesInBucket
                   = GetTotalsDebugSlow(aCopy, cs, aiStart, aiLast).cCasesInBucket

NoQuery == [pc |-> "none", aiPoint |-> <<>>, directionVector |-> 0, ret |-> ZeroBucket]

\* a call of GetTotals on the cube that BuildFastTotals left: it returns the total,
\* or, in a build with the assertions compiled in, an assertion stops the program
GetTotalsCall ==
    /\ hpc = "built"
    /\ query.pc = "none"
    /\ hStates \in QueryShapes
    /\ \E aiPoint \in BinTuples(hStates), directionVector \in 0..(2 ^ Len(hStates) - 1),
          NDEBUG \in BOOLEAN :
          query' = IF NDEBUG \/ GetTotalsAsserts(aBinnedBuckets, aDebugCopy, hStates,
                                                 aiPoint, directionVector)
                   THEN [pc |-> "returned", aiPoint |-> aiPoint,
                         directionVector |-> directionVector,
                         ret |-> GetTotals(aBinnedBuckets, hStates, aiPoint, directionVector)]
                   ELSE [pc |-> "assert", aiPoint |-> aiPoint,
                         directionVector |-> directionVector, ret |-> ZeroBucket]
    /\ UNCHANGED <<hStates, aDebugCopy, aBinnedBuckets, fastTotalState, pBinnedBucket,
                   hpc, cCases, train>>
    /\ UNCHANGED tensorVars
    /\ UNCHANGED pack

\* ------------------------------------------------------ TrainMultiDimensional
\* FractionalDataType: the quotients of the splitter are kept exact by scaling
\* them with a common multiple of every count a bucket can hold
RECURSIVE Gcd(_, _)
Gcd(a, b) == IF b = 0 THEN a ELSE Gcd(b, a % b)

RECURSIVE LcmUpTo(_)
LcmUpTo(n) == IF n <= 1 THEN 1
              ELSE LET l == LcmUpTo(n - 1) IN (l * n) \div Gcd(l, n)

MaxCaseWeight == CHOOSE w \in {k.weight : k \in CaseKinds} :
                    \A k \in CaseKinds : k.weight <= w

FractionScale ==
    LcmUpTo(IF MaxCases * MaxCaseWeight < Len(DataSetBins)
            THEN Len(DataSetBins) ELSE MaxCases * MaxCaseWeight)

\* -infinity, below every splitting score (line 845 asserts that they are not negative)
NegativeInfinity == 0 - 1

\* EbmStatistics.h
ComputeNodeSplittingScore(sumResidualError, cCasesInBucket) ==
    (sumResidualError * sumResidualError * FractionScale) \div cCasesInBucket

ComputeSmallChangeInRegressionPredictionForOneSegment(sumResidualError, cCasesInBucket) ==
    (sumResidualError * FractionScale) \div cCasesInBucket

\* EbmStatistics.h: the residual sum over the denominator, 0 for a segment without
\* weight
ComputeSmallChangeInClassificationLogOddPredictionForOneSegment(sumResidualError, sumDenominator) ==
    IF sumDenominator = 0 THEN 0
    ELSE (sumResidualError * FractionScale) \div sumDenominator

\* PredictionStatistics::GetSumDenominator: every case adds its weight to the
\* denominator of its bucket
GetSumDenominator(pTotals) == pTotals.cCasesInBucket

\* SweepMultiDiemensional, lines 839-844: the score of the two sides of a cut
BucketScore(pTotals) ==
    IF 0 = pTotals.cCasesInBucket THEN 0
    ELSE ComputeNodeSplittingScore(pTotals.sumResidualError, pTotals.cCasesInBucket)

SplittingScore(pTotalsLow, pTotalsHigh) == BucketScore(pTotalsLow) + BucketScore(pTotalsHigh)

\* SweepMultiDiemensional, lines 824-856: the cuts of the swept dimension in
\* ascending order; s holds aDynamicBinnedBuckets, aiPoint, bestSplit and iBestCut
RECURSIVE SweepLoop(_, _, _, _, _, _, _)
SweepLoop(aBuckets, cs, s, iBase, directionVectorLow, iDimensionSweep, iState) ==
    IF ~(iState < Rd(cs, iDimensionSweep) - 1) THEN s
    ELSE LET aiPoint == Wr(s.aiPoint, iDimensionSweep, iState)
             directionVectorHigh == directionVectorLow + 2 ^ iDimensionSweep
             pTotalsLow == GetTotals(aBuckets, cs, aiPoint, directionVectorLow)
             pTotalsHigh == GetTotals(aBuckets, cs, aiPoint, directionVectorHigh)
             aTemp == Wr(Wr(s.aDynamicBinnedBuckets, iBase + 2, pTotalsLow),
                         iBase + 3, pTotalsHigh)
             splittingScore == SplittingScore(pTotalsLow, pTotalsHigh)
         IN SweepLoop(aBuckets, cs,
                IF s.bestSplit < splittingScore
                THEN [aDynamicBinnedBuckets |->
                         Wr(Wr(aTemp, iBase, pTotalsLow), iBase + 1, pTotalsHigh),
                      aiPoint |-> aiPoint,
                      bestSplit |-> splittingScore,
                      iBestCut |-> iState]
                ELSE [s EXCEPT !.aDynamicBinnedBuckets = aTemp, !.aiPoint = aiPoint],
                iBase, directionVectorLow, iDimensionSweep, iState + 1)

\* iBase is the index in aDynamicBinnedBuckets of pBinnedBucketBestAndTemp
SweepMultiDiemensional(aBuckets, cs, aDynamicBinnedBuckets, iBase, aiPoint, directionVectorLow, iDimensionSweep) ==
    SweepLoop(aBuckets, cs,
              [aDynamicBinnedBuckets |-> aDynamicBinnedBuckets,
               aiPoint |-> Wr(aiPoint, iDimensionSweep, 0),
               bestSplit |-> NegativeInfinity,
               iBestCut |-> 0],
              iBase, directionVectorLow, iDimensionSweep, 0)

\* line 1023 allocates 1000 buckets; TrainMultiDimensional and its sweeps use the
\* first 24 of them
cDynamicBinnedBuckets == 24

\* ret is what TrainMultiDimensional returns, 1 for true (the error) and 0 for
\* false; failed holds the buffers whose allocation returned nullptr, and
\* cPastCapacity counts what was written behind the end of such a buffer; entry is
\* the function that was called, heap the buffers that the call got from malloc and
\* has not given to free (in a debug build, which also has the copy of the buckets;
\* the other build has the same ones without the copy), and
\* pInteractionScoreReturn what CalculateInteractionScore wrote to its caller
NoTrain ==
    [ pc |-> "none",
      aDynamicBinnedBuckets |-> <<>>,
      aiStart |-> <<>>,
      iState1 |-> Uninit,
      iState2 |-> Uninit,
      bestSplittingScoreFirst |-> NegativeInfinity,
      cutFirst1Best |-> Uninit, cutFirst1LowBest |-> Uninit, cutFirst1HighBest |-> Uninit,
      bCutFirst2 |-> FALSE,
      cutFirst2Best |-> Uninit, cutFirst2LowBest |-> Uninit, cutFirst2HighBest |-> Uninit,
      bRegression |-> TRUE,
      tensor |-> <<>>,
      ret |-> Uninit,
      failed |-> {},
      cPastCapacity |-> 0,
      entry |-> "none",
      heap |-> {},
      pInteractionScoreReturn |-> Uninit ]

\* TrainMultiDimensional, lines 1019-1043: the locals as the first loop finds them
TrainStart ==
    [NoTrain EXCEPT !.pc = "first1",
                    !.aDynamicBinnedBuckets = [i \in 1..cDynamicBinnedBuckets |-> UninitBucket],
                    !.aiStart = <<Uninit, Uninit>>,
                    !.iState1 = 0,
                    !.entry = "TrainMultiDimensional",
                    !.heap = {"aBinnedBucketsDebugCopy", "aDynamicBinnedBuckets"}]

\* copies aDynamicBinnedBuckets[from[k]] to aDynamicBinnedBuckets[to + k - 1]
CopyBest(aDynamicBinnedBuckets, to, from) ==
    [i \in 1..Len(aDynamicBinnedBuckets) |->
        IF to <= i - 1 /\ i - 1 < to + Len(from)
        THEN Rd(aDynamicBinnedBuckets, from[i - to])
        ELSE aDynamicBinnedBuckets[i]]

\* the last call of GetTotals that a sweep made
LastSweepQuery(aBuckets, cs, sweep, directionVectorHigh) ==
    [pc |-> "sweep", aiPoint |-> sweep.aiPoint, directionVector |-> directionVectorHigh,
     ret |-> GetTotals(aBuckets, cs, sweep.aiPoint, directionVectorHigh)]

\* lines 1066-1076, were the first loop to keep a cut that scores as high as the
\* best so far
TrainFirst1KeepTies(t, low, high) ==
    LET splittingScore == low.bestSplit + high.bestSplit
        swept == [t EXCEPT !.aDynamicBinnedBuckets = high.aDynamicBinnedBuckets,
                           !.aiStart = high.aiPoint]
    IN IF t.bestSplittingScoreFirst <= splittingScore
       THEN [swept EXCEPT
               !.bestSplittingScoreFirst = splittingScore,
               !.cutFirst1Best = t.iState1,
               !.cutFirst1LowBest = low.iBestCut,
               !.cutFirst1HighBest = high.iBestCut,
               !.aDynamicBinnedBuckets = CopyBest(@, 0, <<4, 5, 8, 9>>)]
       ELSE swept

\* lines 1066-1076: the first loop keeps a cut that scores higher than the best so far
TrainFirst1Keep(t, low, high) ==
    LET splittingScore == low.bestSplit + high.bestSplit
        swept == [t EXCEPT !.aDynamicBinnedBuckets = high.aDynamicBinnedBuckets,
                           !.aiStart = high.aiPoint]
    IN IF t.bestSplittingScoreFirst < splittingScore
       THEN [swept EXCEPT
               !.bestSplittingScoreFirst = splittingScore,
               !.cutFirst1Best = t.iState1,
               !.cutFirst1LowBest = low.iBestCut,
               !.cutFirst1HighBest = high.iBestCut,
               !.aDynamicBinnedBuckets = CopyBest(@, 0, <<4, 5, 8, 9>>)]
       ELSE swept

\* lines 1113-1125, were the second loop to keep the best cut of its own
TrainFirst2KeepOwnBest(t, low, high) ==
    LET splittingScore == low.bestSplit + high.bestSplit
        swept == [t EXCEPT !.aDynamicBinnedBuckets = high.aDynamicBinnedBuckets,
                           !.aiStart = high.aiPoint]
    IN IF ~t.bCutFirst2 \/ t.bestSplittingScoreFirst < splittingScore
       THEN [swept EXCEPT
               !.bestSplittingScoreFirst = splittingScore,
               !.cutFirst2Best = t.iState2,
               !.cutFirst2LowBest = low.iBestCut,
               !.cutFirst2HighBest = high.iBestCut,
               !.aDynamicBinnedBuckets = CopyBest(@, 12, <<16, 17, 20, 21>>),
               !.bCutFirst2 = TRUE]
       ELSE swept

\* lines 1113-1125: the second loop keeps a cut only if it scores higher than the
\* best of the first loop and of the second loop so far
TrainFirst2Keep(t, low, high) ==
    LET splittingScore == low.bestSplit + high.bestSplit
        swept == [t EXCEPT !.aDynamicBinnedBuckets = high.aDynamicBinnedBuckets,
                           !.aiStart = high.aiPoint]
    IN IF t.bestSplittingScoreFirst < splittingScore
       THEN [swept EXCEPT
               !.bestSplittingScoreFirst = splittingScore,
               !.cutFirst2Best = t.iState2,
               !.cutFirst2LowBest = low.iBestCut,
               !.cutFirst2HighBest = high.iBestCut,
               !.aDynamicBinnedBuckets = CopyBest(@, 12, <<16, 17, 20, 21>>),
               !.bCutFirst2 = TRUE]
       ELSE swept

\* TrainMultiDimensional, lines 1019-1077 for two dimensions: one turn of the loop
\* over the cuts of the first dimension, with the best cut of the second dimension
\* below it and above it; the first turn follows BuildFastTotals
TrainFirst1Step ==
    /\ \/ hpc = "built" /\ query.pc = "none" /\ Len(hStates) = 2
       \/ hpc = "train" /\ train.pc = "first1"
    /\ \E t \in {IF hpc = "built" THEN TrainStart ELSE train} :
       \E low \in {SweepMultiDiemensional(aBinnedBuckets, hStates, t.aDynamicBinnedBuckets, 4,
                                          Wr(t.aiStart, 0, t.iState1), 0, 1)} :
       \E high \in {SweepMultiDiemensional(aBinnedBuckets, hStates, low.aDynamicBinnedBuckets,
                                           8, low.aiPoint, 1, 1)} :
          /\ train' = IF t.iState1 + 1 < Rd(hStates, 0) - 1
                      THEN [TrainFirst1Keep(t, low, high) EXCEPT !.iState1 = @ + 1]
                      ELSE [TrainFirst1Keep(t, low, high) EXCEPT !.iState1 = @ + 1,
                                                                 !.iState2 = 0,
                                                                 !.pc = "first2"]
          /\ query' = LastSweepQuery(aBinnedBuckets, hStates, high, 3)
    /\ hpc' = "train"
    /\ UNCHANGED <<hStates, aDebugCopy, aBinnedBuckets, fastTotalState, pBinnedBucket,
                   cCases>>
    /\ UNCHANGED tensorVars
    /\ UNCHANGED pack

\* TrainMultiDimensional, lines 1079-1126: one turn of the loop over the cuts of the
\* second dimension, with the best cut of the first dimension below it and above it
TrainFirst2Step ==
    /\ hpc = "train"
    /\ train.pc = "first2"
    /\ \E low \in {SweepMultiDiemensional(aBinnedBuckets, hStates, train.aDynamicBinnedBuckets,
                                          16, Wr(train.aiStart, 1, train.iState2), 0, 0)} :
       \E high \in {SweepMultiDiemensional(aBinnedBuckets, hStates, low.aDynamicBinnedBuckets,
                                           20, low.aiPoint, 2, 0)} :
          /\ train' = [TrainFirst2Keep(train, low, high) EXCEPT
                         !.iState2 = @ + 1,
                         !.pc = IF train.iState2 + 1 < Rd(hStates, 1) - 1
                                THEN "first2" ELSE "emit"]
          /\ query' = LastSweepQuery(aBinnedBuckets, hStates, high, 3)
    /\ UNCHANGED <<hStates, aDebugCopy, aBinnedBuckets, fastTotalState, pBinnedBucket,
                   hpc, cCases>>
    /\ UNCHANGED tensorVars
    /\ UNCHANGED pack

\* the quotient of two zeros
NotANumber == 0 - 999

\* lines 1159-1162 without the test for a quadrant without cases
PredictionUnguarded(pTotals) ==
    IF 0 = pTotals.cCasesInBucket THEN NotANumber
    ELSE ComputeSmallChangeInRegressionPredictionForOneSegment(
             pTotals.sumResidualError, pTotals.cCasesInBucket)

\* lines 1159-1162 and 1224-1227: the prediction of one quadrant
Prediction(pTotals) ==
    IF 0 = pTotals.cCasesInBucket THEN 0
    ELSE ComputeSmallChangeInRegressionPredictionForOneSegment(
             pTotals.sumResidualError, pTotals.cCasesInBucket)

\* lines 1163-1168 and 1228-1233: the prediction of one quadrant for classification
PredictionClassification(pTotals) ==
    ComputeSmallChangeInClassificationLogOddPredictionForOneSegment(
        pTotals.sumResidualError, GetSumDenominator(pTotals))

\* lines 1157-1169 and 1222-1234: IsRegression(countCompilerClassificationTargetStates)
\* picks the prediction
PredictionOf(bRegression, pTotals) ==
    IF bRegression THEN Prediction(pTotals) ELSE PredictionClassification(pTotals)

\* lines 1172-1191: the values when the second dimension has the one cut; the first
\* dimension's regions run fastest
ValuesFirst2(cutLow, cutHigh, predictionLowLow, predictionLowHigh, predictionHighLow, predictionHighHigh) ==
    IF cutLow < cutHigh
    THEN <<predictionLowLow, predictionLowHigh, predictionLowHigh,
           predictionHighLow, predictionHighLow, predictionHighHigh>>
    ELSE IF cutHigh < cutLow
    THEN <<predictionLowLow, predictionLowLow, predictionLowHigh,
           predictionHighLow, predictionHighHigh, predictionHighHigh>>
    ELSE <<predictionLowLow, predictionLowHigh, predictionHighLow, predictionHighHigh>>

\* lines 1237-1256, were the regions of the first dimension to run slowest
ValuesFirst1Transposed(cutLow, cutHigh, predictionLowLow, predictionLowHigh, predictionHighLow, predictionHighHigh) ==
    IF cutLow < cutHigh
    THEN <<predictionLowLow, predictionLowHigh, predictionLowHigh,
           predictionHighLow, predictionHighLow, predictionHighHigh>>
    ELSE IF cutHigh < cutLow
    THEN <<predictionLowLow, predictionLowLow, predictionLowHigh,
           predictionHighLow, predictionHighHigh, predictionHighHigh>>
    ELSE <<predictionLowLow, predictionLowHigh, predictionHighLow, predictionHighHigh>>

\* lines 1237-1256: the values when the first dimension has the one cut
ValuesFirst1(cutLow, cutHigh, predictionLowLow, predictionLowHigh, predictionHighLow, predictionHighHigh) ==
    IF cutLow < cutHigh
    THEN <<predictionLowLow, predictionHighLow, predictionLowHigh,
           predictionHighLow, predictionLowHigh, predictionHighHigh>>
    ELSE IF cutHigh < cutLow
    THEN <<predictionLowLow, predictionHighLow, predictionLowLow,
           predictionHighHigh, predictionLowHigh, predictionHighHigh>>
    ELSE <<predictionLowLow, predictionHighLow, predictionLowHigh, predictionHighHigh>>

\* the cut written as the number of the bin above the boundary
SetDivisionBinAbove(t, iDimension, i, v) ==
    [t EXCEPT !.m_aDimensions[iDimension].aDivisions = Wr(@, i, v + 1)]

SetDivision(t, iDimension, i, v) ==
    [t EXCEPT !.m_aDimensions[iDimension].aDivisions = Wr(@, i, v)]

SetValues(t, values) ==
    [t EXCEPT !.m_aValues = [i \in 1..Len(@) |-> IF i <= Len(values) THEN values[i] ELSE @[i]]]

\* lines 1129-1149 and 1194-1214 with the two cuts written in the order low side,
\* high side whichever is smaller
EmitDivisionsUnordered(pSmallChange, iFirst, iSecond, cutBest, cutLow, cutHigh) ==
    LET t1 == SetDivision(SetCountDivisions(pSmallChange, iFirst, 1), iFirst, 0, cutBest)
    IN IF cutLow # cutHigh
       THEN SetDivision(SetDivision(SetCountDivisions(EnsureValueCapacity(t1, 6), iSecond, 2),
                                    iSecond, 0, cutLow), iSecond, 1, cutHigh)
       ELSE SetDivision(EnsureValueCapacity(SetCountDivisions(t1, iSecond, 1), 4),
                        iSecond, 0, cutLow)

\* lines 1129-1149 and 1194-1214: one cut on the dimension iFirst that was cut
\* first, the cuts cutLow and cutHigh in ascending order on the other one, iSecond
EmitDivisions(pSmallChange, iFirst, iSecond, cutBest, cutLow, cutHigh) ==
    LET t1 == SetDivision(SetCountDivisions(pSmallChange, iFirst, 1), iFirst, 0, cutBest)
    IN IF cutLow < cutHigh
       THEN SetDivision(SetDivision(SetCountDivisions(EnsureValueCapacity(t1, 6), iSecond, 2),
                                    iSecond, 0, cutLow), iSecond, 1, cutHigh)
       ELSE IF cutHigh < cutLow
       THEN SetDivision(SetDivision(SetCountDivisions(EnsureValueCapacity(t1, 6), iSecond, 2),
                                    iSecond, 0, cutHigh), iSecond, 1, cutLow)
       ELSE SetDivision(EnsureValueCapacity(SetCountDivisions(t1, iSecond, 1), 4),
                        iSecond, 0, cutLow)

\* lines 1128-1258: the tensor of the best split
EmitTensor(pSmallChange, t) ==
    LET a == t.aDynamicBinnedBuckets
    IN IF t.bCutFirst2
       THEN SetValues(EmitDivisions(pSmallChange, 2, 1, t.cutFirst2Best,
                                    t.cutFirst2LowBest, t.cutFirst2HighBest),
                      ValuesFirst2(t.cutFirst2LowBest, t.cutFirst2HighBest,
                                   PredictionOf(t.bRegression, Rd(a, 12)),
                                   PredictionOf(t.bRegression, Rd(a, 13)),
                                   PredictionOf(t.bRegression, Rd(a, 14)),
                                   PredictionOf(t.bRegression, Rd(a, 15))))
       ELSE SetValues(EmitDivisions(pSmallChange, 1, 2, t.cutFirst1Best,
                                    t.cutFirst1LowBest, t.cutFirst1HighBest),
                      ValuesFirst1(t.cutFirst1LowBest, t.cutFirst1HighBest,
                                   PredictionOf(t.bRegression, Rd(a, 0)),
                                   PredictionOf(t.bRegression, Rd(a, 1)),
                                   PredictionOf(t.bRegression, Rd(a, 2)),
                                   PredictionOf(t.bRegression, Rd(a, 3))))

\* SetCountDivisions, lines 143-162, whose realloc returns nullptr when bFail: it
\* returns true in line 153 and the tensor stays as it was
SetCountDivisionsOr(t, iDimension, cDivisions, bFail) ==
    IF bFail /\ SetCountDivisionsGrows(t, iDimension, cDivisions) THEN t
    ELSE SetCountDivisions(t, iDimension, cDivisions)

\* EnsureValueCapacity, lines 164-179, the same way
EnsureValueCapacityOr(t, cValues, bFail) ==
    IF bFail /\ EnsureValueCapacityGrows(t, cValues) THEN t
    ELSE EnsureValueCapacity(t, cValues)

\* GetDivisionPointer(iDimension)[i] = v on an array that may be shorter: what is
\* written past its capacity is not in the array
SetDivisionInside(t, iDimension, i, v) ==
    IF i < t.m_aDimensions[iDimension].cDivisionCapacity
    THEN SetDivision(t, iDimension, i, v)
    ELSE t

\* lines 1129-1149 and 1194-1214 with the reallocs of the buffers in failed
\* returning nullptr: the code drops what SetCountDivisions and EnsureValueCapacity
\* return and goes on to write the cuts
EmitDivisionsIgnoring(pSmallChange, iFirst, iSecond, cutBest, cutLow, cutHigh, failed) ==
    LET t1 == SetDivisionInside(SetCountDivisionsOr(pSmallChange, iFirst, 1,
                                                    "aDivisions" \in failed),
                                iFirst, 0, cutBest)
        grown6 == SetCountDivisionsOr(EnsureValueCapacityOr(t1, 6, "aValues" \in failed),
                                      iSecond, 2, "aDivisions" \in failed)
        grown4 == EnsureValueCapacityOr(SetCountDivisionsOr(t1, iSecond, 1,
                                                            "aDivisions" \in failed),
                                        4, "aValues" \in failed)
    IN IF cutLow < cutHigh
       THEN SetDivisionInside(SetDivisionInside(grown6, iSecond, 0, cutLow), iSecond, 1, cutHigh)
       ELSE IF cutHigh < cutLow
       THEN SetDivisionInside(SetDivisionInside(grown6, iSecond, 0, cutHigh), iSecond, 1, cutLow)
       ELSE SetDivisionInside(grown4, iSecond, 0, cutLow)

\* lines 1128-1258 with the reallocs of the buffers in failed returning nullptr
EmitTensorIgnoring(pSmallChange, t, failed) ==
    LET a == t.aDynamicBinnedBuckets
    IN IF t.bCutFirst2
       THEN SetValues(EmitDivisionsIgnoring(pSmallChange, 2, 1, t.cutFirst2Best,
                                            t.cutFirst2LowBest, t.cutFirst2HighBest, failed),
                      ValuesFirst2(t.cutFirst2LowBest, t.cutFirst2HighBest,
                                   PredictionOf(t.bRegression, Rd(a, 12)),
                                   PredictionOf(t.bRegression, Rd(a, 13)),
                                   PredictionOf(t.bRegression, Rd(a, 14)),
                                   PredictionOf(t.bRegression, Rd(a, 15))))
       ELSE SetValues(EmitDivisionsIgnoring(pSmallChange, 1, 2, t.cutFirst1Best,
                                            t.cutFirst1LowBest, t.cutFirst1HighBest, failed),
                      ValuesFirst1(t.cutFirst1LowBest, t.cutFirst1HighBest,
                                   PredictionOf(t.bRegression, Rd(a, 0)),
                                   PredictionOf(t.bRegression, Rd(a, 1)),
                                   PredictionOf(t.bRegression, Rd(a, 2)),
                                   PredictionOf(t.bRegression, Rd(a, 3))))

\* the cuts of the dimension that is cut second, and its number
EmitSecondCuts(t) ==
    IF t.bCutFirst2 THEN <<1, t.cutFirst2LowBest, t.cutFirst2HighBest>>
    ELSE <<2, t.cutFirst1LowBest, t.cutFirst1HighBest>>

\* the buffers of pSmallChange that lines 1129-1149 and 1194-1214 have to grow
EmitGrows(pSmallChange, t) ==
    LET second == EmitSecondCuts(t)
        cCuts == IF second[2] = second[3] THEN 1 ELSE 2
    IN { b \in {"aValues"} : EnsureValueCapacityGrows(pSmallChange, 2 * (cCuts + 1)) }
       \cup { b \in {"aDivisions"} : SetCountDivisionsGrows(pSmallChange, second[1], cCuts) }

\* the cuts and values that lines 1130-1258 write behind the end of the arrays of
\* the tensor
EmitPastCapacity(tensor, t) ==
    LET second == EmitSecondCuts(t)
        cCuts == IF second[2] = second[3] THEN 1 ELSE 2
        cValues == 2 * (cCuts + 1)
    IN (IF tensor.m_cValueCapacity < cValues THEN cValues - tensor.m_cValueCapacity ELSE 0)
       + (IF tensor.m_aDimensions[second[1]].cDivisionCapacity < cCuts
          THEN cCuts - tensor.m_aDimensions[second[1]].cDivisionCapacity ELSE 0)

\* TrainMultiDimensional, lines 1128-1273: the tensor of the best split goes to the
\* caller; the build is the one for regression or the one for classification, which
\* differ in nothing before the predictions. A realloc of the tensor that returns
\* nullptr is not looked at: the cuts and values are written all the same, behind
\* the end of the array that did not grow, after which the process is killed or
\* goes on to return false
TrainEmit ==
    /\ hpc = "train"
    /\ train.pc = "emit"
    /\ \E bRegression \in BOOLEAN :
       \E failed \in SUBSET EmitGrows(Allocate(2, 1), train) :
       \E bKilled \in {b \in BOOLEAN : b => failed # {}} :
       \E t \in {[train EXCEPT !.bRegression = bRegression]} :
       \E tensor \in {IF failed = {} THEN EmitTensor(Allocate(2, 1), t)
                      ELSE EmitTensorIgnoring(Allocate(2, 1), t, failed)} :
          /\ train' = [t EXCEPT
                          !.pc = IF failed = {} THEN "done"
                                 ELSE IF bKilled THEN "killed" ELSE "overrun",
                          !.tensor = tensor,
                          !.ret = IF bKilled THEN Uninit ELSE 0,
                          !.failed = failed,
                          !.cPastCapacity = EmitPastCapacity(tensor, t),
                          \* lines 1260 and 1269: the two calls of free
                          !.heap = IF bKilled THEN @ ELSE {}]
          /\ hpc' = IF bKilled THEN "killed" ELSE "trained"
    /\ UNCHANGED <<hStates, aDebugCopy, aBinnedBuckets, fastTotalState, pBinnedBucket,
                   cCases, query>>
    /\ UNCHANGED tensorVars
    /\ UNCHANGED pack

\* TrainMultiDimensional, lines 877-880, and CalculateInteractionScore, lines
\* 1542-1545: GetThreadByteBuffer1 returns nullptr, and the function returns true
\* with no bucket written
TrainBufferFails ==
    /\ hpc = "bin"
    /\ cCases = 0
    /\ aBinnedBuckets' = <<>>
    /\ \E entry \in {"TrainMultiDimensional", "CalculateInteractionScore"} :
          train' = [NoTrain EXCEPT !.pc = "error", !.ret = 1, !.failed = {"aBinnedBuckets"},
                                   !.entry = entry]
    /\ hpc' = "error"
    /\ UNCHANGED <<hStates, aDebugCopy, fastTotalState, pBinnedBucket, cCases, query>>
    /\ UNCHANGED tensorVars
    /\ UNCHANGED pack

\* TrainMultiDimensional, lines 1023-1046: the malloc of aDynamicBinnedBuckets returns
\* nullptr, which is not looked at, and the first sweep writes its totals through
\* it: the process is killed there; where the write lands instead, the program goes
\* on as TrainFirst1Step has it
TrainScratchFails ==
    /\ hpc = "built"
    /\ query.pc = "none"
    /\ Len(hStates) = 2
    /\ train' = [NoTrain EXCEPT !.pc = "killed", !.failed = {"aDynamicBinnedBuckets"},
                                !.cPastCapacity = 1,
                                !.entry = "TrainMultiDimensional",
                                !.heap = {"aBinnedBucketsDebugCopy"}]
    /\ hpc' = "killed"
    /\ UNCHANGED <<hStates, aDebugCopy, aBinnedBuckets, fastTotalState, pBinnedBucket,
                   cCases, query>>
    /\ UNCHANGED tensorVars
    /\ UNCHANGED pack

\* lines 1262-1272 without the exit: the function goes on to return false
TrainExitReturns ==
    /\ hpc = "built"
    /\ query.pc = "none"
    /\ Len(hStates) # 2
    /\ train' = [NoTrain EXCEPT !.pc = "exit", !.entry = "TrainMultiDimensional", !.ret = 0]
    /\ hpc' = "exit"
    /\ UNCHANGED <<hStates, aDebugCopy, aBinnedBuckets, fastTotalState, pBinnedBucket,
                   cCases, query>>
    /\ UNCHANGED tensorVars
    /\ UNCHANGED pack

\* TrainMultiDimensional, lines 1262-1266: any other number of dimensions ends the
\* program
TrainExit ==
    /\ hpc = "built"
    /\ query.pc = "none"
    /\ Len(hStates) # 2
    /\ train' = [NoTrain EXCEPT !.pc = "exit", !.entry = "TrainMultiDimensional",
                                !.heap = {"aBinnedBucketsDebugCopy"}]
    /\ hpc' = "exit"
    /\ UNCHANGED <<hStates, aDebugCopy, aBinnedBuckets, fastTotalState, pBinnedBucket,
                   cCases, query>>
    /\ UNCHANGED tensorVars
    /\ UNCHANGED pack

\* CalculateInteractionScore, lines 1602-1634: the four quadrants of the point
\* aiStart with the direction vectors 0, 2, 1 and 3, scored on two of them only
InteractionSplittingScoreTwo(aBuckets, cs, aiStart) ==
    BucketScore(GetTotals(aBuckets, cs, aiStart, 0))
       + BucketScore(GetTotals(aBuckets, cs, aiStart, 3))

\* CalculateInteractionScore, lines 1602-1634: the sum of the scores of the four
\* quadrants of the point aiStart, which GetTotals computes with the direction
\* vectors 0, 2, 1 and 3
InteractionSplittingScore(aBuckets, cs, aiStart) ==
    BucketScore(GetTotals(aBuckets, cs, aiStart, 0))
       + BucketScore(GetTotals(aBuckets, cs, aiStart, 2))
       + BucketScore(GetTotals(aBuckets, cs, aiStart, 1))
       + BucketScore(GetTotals(aBuckets, cs, aiStart, 3))

\* CalculateInteractionScore, lines 1599-1642: the two loops over the cuts, the
\* second dimension in the inner one
RECURSIVE InteractionScoreLoop(_, _, _, _, _)
InteractionScoreLoop(aBuckets, cs, iState1, iState2, bestSplittingScore) ==
    IF ~(iState1 < Rd(cs, 0) - 1) THEN bestSplittingScore
    ELSE IF ~(iState2 < Rd(cs, 1) - 1)
    THEN InteractionScoreLoop(aBuckets, cs, iState1 + 1, 0, bestSplittingScore)
    ELSE LET splittingScore == InteractionSplittingScore(aBuckets, cs, <<iState1, iState2>>)
         IN InteractionScoreLoop(aBuckets, cs, iState1, iState2 + 1,
                                 IF bestSplittingScore < splittingScore
                                 THEN splittingScore ELSE bestSplittingScore)

\* CalculateInteractionScore, lines 1587-1660, after BuildFastTotals: for a pair the
\* best score goes to the caller, the copy of the buckets is given to free and the
\* function returns false; aDynamicBinnedBuckets is given to free nowhere. Its malloc
\* in line 1589 is not looked at either: when it returns nullptr the first GetTotals
\* writes through it and the process is killed
CalculateInteractionScoreCall ==
    /\ hpc = "built"
    /\ query.pc = "none"
    /\ Len(hStates) = 2
    /\ \E bMalloc \in BOOLEAN :
       \E score \in {InteractionScoreLoop(aBinnedBuckets, hStates, 0, 0, NegativeInfinity)} :
          /\ train' = IF bMalloc
                      THEN [NoTrain EXCEPT !.pc = "scored", !.ret = 0,
                                           !.entry = "CalculateInteractionScore",
                                           !.heap = {"aDynamicBinnedBuckets"},
                                           !.pInteractionScoreReturn = score]
                      ELSE [NoTrain EXCEPT !.pc = "killed",
                                           !.entry = "CalculateInteractionScore",
                                           !.failed = {"aDynamicBinnedBuckets"},
                                           !.cPastCapacity = 1,
                                           !.heap = {"aBinnedBucketsDebugCopy"}]
          /\ hpc' = IF bMalloc THEN "scored" ELSE "killed"
    /\ UNCHANGED <<hStates, aDebugCopy, aBinnedBuckets, fastTotalState, pBinnedBucket,
                   cCases, query>>
    /\ UNCHANGED tensorVars
    /\ UNCHANGED pack

\* CalculateInteractionScore, lines 1649-1654: any other number of dimensions ends
\* the program
CalculateInteractionScoreExit ==
    /\ hpc = "built"
    /\ query.pc = "none"
    /\ Len(hStates) # 2
    /\ train' = [NoTrain EXCEPT !.pc = "exit", !.entry = "CalculateInteractionScore",
                                !.heap = {"aBinnedBucketsDebugCopy"}]
    /\ hpc' = "exit"
    /\ UNCHANGED <<hStates, aDebugCopy, aBinnedBuckets, fastTotalState, pBinnedBucket,
                   cCases, query>>
    /\ UNCHANGED tensorVars
    /\ UNCHANGED pack

\* the tensor part at rest
TensorIdle ==
    /\ acStates = <<>>
    /\ A = Allocate(1, 1)
    /\ B = Allocate(1, 1)
    /\ op = NoOp
    /\ preA = A
    /\ preB = B
    /\ cOps = 0

\* TrainMultiDimensional, lines 866-882: the buffer of the main cube and the rings,
\* all zero
InitHist ==
    /\ hStates \in HistShapes
    /\ aBinnedBuckets = [i \in 1..cTotalBucketsOf(hStates) |-> ZeroBucket]
    /\ aDebugCopy = <<>>
    /\ fastTotalState = <<>>
    /\ pBinnedBucket = 0
    /\ hpc = "bin"
    /\ cCases = 0
    /\ query = NoQuery
    /\ train = NoTrain
    /\ TensorIdle
    /\ PackIdle

NextHist ==
    \/ BinCase
    \/ BinDataSet
    \/ BuildFastTotalsBegin
    \/ BuildFastTotalsStep
    \/ BuildFastTotalsZeroMemoryIncreaseBegin
    \/ BuildFastTotalsZeroMemoryIncreaseStep
    \/ GetTotalsCall
    \/ TrainFirst1Step
    \/ TrainFirst2Step
    \/ TrainEmit
    \/ TrainBufferFails
    \/ TrainScratchFails
    \/ TrainExit
    \/ CalculateInteractionScoreCall
    \/ CalculateInteractionScoreExit

SpecHist == InitHist /\ [][NextHist]_vars

\* --------------------------------------------------- ConstructInputData
\* CountBitsRequiredCore: the bits of a number
RECURSIVE CountBitsRequiredCore(_)
CountBitsRequiredCore(cBitsMax) ==
    IF 0 = cBitsMax THEN 0 ELSE 1 + CountBitsRequiredCore(cBitsMax \div 2)

\* the bits of a data unit
k_cBitsForStorageType == WordBits

GetCountItemsBitPacked(cBits) == k_cBitsForStorageType \div cBits

GetCountBits(cItemsBitPacked) == k_cBitsForStorageType \div cItemsBitPacked

\* the bits that the largest tensor index of a combination needs
BitsPerItem(cs) == CountBitsRequiredCore(Product(cs) - 1)

\* m_cItemsPerBitPackDataUnit of a combination: the items of that many bits that a
\* data unit holds
ItemsPerBitPackDataUnit(cs) == GetCountItemsBitPacked(BitsPerItem(cs))

\* a | b on the data unit
RECURSIVE BitOr(_, _)
BitOr(a, b) ==
    IF a = 0 THEN b
    ELSE IF b = 0 THEN a
    ELSE (IF a % 2 = 1 \/ b % 2 = 1 THEN 1 ELSE 0) + 2 * BitOr(a \div 2, b \div 2)

\* v << shift on the data unit
ShiftLeft(v, shift) == (v * (2 ^ shift)) % (2 ^ k_cBitsForStorageType)

\* line 177 with = for |=
PackItemAssign(bits, tensorIndex, shift) == ShiftLeft(tensorIndex, shift)

\* ConstructInputData, line 177: the first item goes to the least significant bits
PackItem(bits, tensorIndex, shift) == BitOr(bits, ShiftLeft(tensorIndex, shift))

\* ConstructInputData, lines 157-172: the tensor index of the next case, read
\* through the cursors of the dimensions, which all step on
RECURSIVE ReadTensorIndex(_, _, _, _, _)
ReadTensorIndex(pk, dimensionInfo, d, tensorMultiple, tensorIndex) ==
    IF d > Len(dimensionInfo) THEN [dimensionInfo |-> dimensionInfo, tensorIndex |-> tensorIndex]
    ELSE LET pInputData == dimensionInfo[d].m_pInputData
             inputData == Rd(pk.aInputDataFrom, pInputData)
         IN ReadTensorIndex(pk, [dimensionInfo EXCEPT ![d].m_pInputData = pInputData + 1],
                            d + 1, tensorMultiple * dimensionInfo[d].m_cStates,
                            tensorIndex + tensorMultiple * inputData)

\* the reads of the input that the cursors of the dimensions make on one step
CountReads(cReads, dimensionInfo) ==
    [i \in 1..Len(cReads) |->
        cReads[i] + Cardinality({ d \in 1..Len(dimensionInfo) :
                                    dimensionInfo[d].m_pInputData = i - 1 })]

\* ConstructInputData, lines 154-179: the items of one data unit, up to shiftEnd
RECURSIVE PackDataUnit(_, _, _, _, _, _)
PackDataUnit(pk, dimensionInfo, cReads, bits, shift, shiftEnd) ==
    LET read == ReadTensorIndex(pk, dimensionInfo, 1, 1, 0)
        bits2 == PackItem(bits, read.tensorIndex, shift)
        shift2 == shift + GetCountBits(pk.cItemsPerBitPackDataUnit)
        cReads2 == CountReads(cReads, dimensionInfo)
    IN IF shiftEnd # shift2
       THEN PackDataUnit(pk, read.dimensionInfo, cReads2, bits2, shift2, shiftEnd)
       ELSE [dimensionInfo |-> read.dimensionInfo, cReads |-> cReads2, bits |-> bits2]

\* the combinations whose data is packed
PackShapes == { <<2>>, <<3>>, <<2, 3>> }

\* aInputDataFrom: the bins of attribute d of all cases lie at d * cCases
InputData(cs, n) ==
    { a \in [1..(Len(cs) * n) -> 0..2] :
         \A i \in 1..(Len(cs) * n) : a[i] < cs[(i - 1) \div n + 1] }

\* the bin tuple of a case in aInputDataFrom
CaseBins(pk, iCase) ==
    [d \in 1..Len(pk.cStates) |-> Rd(pk.aInputDataFrom, (d - 1) * pk.cCases + iCase)]

\* cDataUnits, line 116
CountDataUnits(cCasesPacked, cItemsPerBitPackDataUnit) ==
    (cCasesPacked - 1) \div cItemsPerBitPackDataUnit + 1

\* ConstructInputData, lines 103-147: the block of the combination is allocated and
\* the cursors of the dimensions are put on the first case; nullptr is returned
\* when malloc fails
ConstructInputDataBegin ==
    /\ pack.pc = "start"
    /\ \E bMalloc \in BOOLEAN :
          pack' = IF ~bMalloc THEN [pack EXCEPT !.pc = "nullptr"]
                  ELSE [pack EXCEPT
                          !.pc = "loop",
                          !.aInputDataTo =
                              [i \in 1..CountDataUnits(pack.cCases, pack.cItemsPerBitPackDataUnit)
                                 |-> Uninit],
                          !.pInputDataTo = 0,
                          !.dimensionInfo =
                              [d \in 1..Len(pack.cStates) |->
                                  [m_pInputData |-> (d - 1) * pack.cCases,
                                   m_cStates |-> pack.cStates[d]]]]
    /\ UNCHANGED tensorVars
    /\ UNCHANGED histVars

\* ConstructInputData, lines 153-182: one turn of the while loop fills a data unit
\* that is not the last one
ConstructInputDataLoop ==
    /\ pack.pc = "loop"
    /\ pack.pInputDataTo < Len(pack.aInputDataTo) - 1
    /\ \E unit \in { PackDataUnit(pack, pack.dimensionInfo, pack.cReads, 0, 0,
                                   GetCountBits(pack.cItemsPerBitPackDataUnit)
                                      * pack.cItemsPerBitPackDataUnit) } :
          pack' = [pack EXCEPT
                     !.aInputDataTo = Wr(@, pack.pInputDataTo, unit.bits),
                     !.pInputDataTo = @ + 1,
                     !.dimensionInfo = unit.dimensionInfo,
                     !.cReads = unit.cReads]
    /\ UNCHANGED tensorVars
    /\ UNCHANGED histVars

\* ConstructInputData, lines 184-192: the last data unit is filled by the same loop
\* body with shiftEnd cut down to the cases that are left
ConstructInputDataLast ==
    /\ pack.pc = "loop"
    /\ pack.pInputDataTo = Len(pack.aInputDataTo) - 1
    /\ \E unit \in { PackDataUnit(pack, pack.dimensionInfo, pack.cReads, 0, 0,
                                   GetCountBits(pack.cItemsPerBitPackDataUnit)
                                      * (((pack.cCases - 1) % pack.cItemsPerBitPackDataUnit) + 1)) } :
          pack' = [pack EXCEPT
                     !.pc = "done",
                     !.aInputDataTo = Wr(@, pack.pInputDataTo, unit.bits),
                     !.pInputDataTo = @ + 1,
                     !.dimensionInfo = unit.dimensionInfo,
                     !.cReads = unit.cReads]
    /\ UNCHANGED tensorVars
    /\ UNCHANGED histVars

\* the data set and the combination that ConstructInputData is called with
InitPack ==
    /\ \E cs \in PackShapes, n \in 1..MaxPackCases :
          \E aInputDataFrom \in InputData(cs, n) :
             pack = [NoPack EXCEPT
                       !.pc = "start", !.cStates = cs, !.cCases = n,
                       !.aInputDataFrom = aInputDataFrom,
                       !.cItemsPerBitPackDataUnit = ItemsPerBitPackDataUnit(cs),
                       !.cReads = [i \in 1..(Len(cs) * n) |-> 0]]
    /\ TensorIdle
    /\ HistIdle

NextPack ==
    \/ ConstructInputDataBegin
    \/ ConstructInputDataLoop
    \/ ConstructInputDataLast

SpecPack == InitPack /\ [][NextPack]_vars

\* ------------------------------------- properties of the bit-packed input

\* the bits [iSlot * cBits, (iSlot + 1) * cBits) of a data unit
Slot(bits, iSlot, cBits) == (bits \div (2 ^ (iSlot * cBits))) % (2 ^ cBits)

\* the block that ConstructInputData returned holds every case in the slot
\* iCase mod cItems, cBits wide, of the data unit iCase div cItems, has
\* ceil(cCases / cItems) data units and nothing behind the last case, and every
\* input value was read once
PackedInSlotsOf(cBits) ==
    LET cItems == pack.cItemsPerBitPackDataUnit
    IN /\ Len(pack.aInputDataTo) * cItems >= pack.cCases
       /\ (Len(pack.aInputDataTo) - 1) * cItems < pack.cCases
       /\ \A iCase \in 0..(pack.cCases - 1) :
             Slot(Rd(pack.aInputDataTo, iCase \div cItems), iCase % cItems, cBits)
                = DirectIndex(pack.cStates, CaseBins(pack, iCase))
       /\ Rd(pack.aInputDataTo, Len(pack.aInputDataTo) - 1)
             \div (2 ^ (cBits * (((pack.cCases - 1) % cItems) + 1))) = 0
       /\ \A i \in 1..Len(pack.cReads) : pack.cReads[i] = 1

\* C17 as the claim states it: the slots are as wide as the bits per item, the
\* bits that the largest tensor index of the combination needs
PackedInSlotsOfBitsPerItem ==
    pack.pc = "done" => PackedInSlotsOf(BitsPerItem(pack.cStates))

\* C17: the slots are floor(bits of a data unit / items per data unit) wide, which
\* is more than the bits per item when these do not divide the data unit evenly;
\* with slots of that width case c lies in slot c mod items of data unit
\* c div items as its mixed-radix tensor index, the block has
\* ceil(cCases / items) data units, every input value is read once and the last
\* data unit is zero behind its last case
PackedInSlotsOfCountBits ==
    pack.pc = "done" => PackedInSlotsOf(GetCountBits(pack.cItemsPerBitPackDataUnit))

\* a block of two full data units and a last one with a single case has been
\* packed for a pair, with slots wider than the bits per item
PackedInSlotsWitness ==
    /\ pack.pc = "done"
    /\ Len(pack.cStates) = 2
    /\ Len(pack.aInputDataTo) = 3
    /\ pack.cCases % pack.cItemsPerBitPackDataUnit = 1
    /\ BitsPerItem(pack.cStates) < GetCountBits(pack.cItemsPerBitPackDataUnit)
    /\ \A i \in 1..3 : pack.aInputDataTo[i] # 0

\* ---------------------------------------------- the tensors of both parts
\* the tensor operations and the functions over the histogram in one
\* specification: a behaviour is one of the former or one of the latter
InitAll == InitTensor \/ InitHist

NextAll ==
    \/ hpc = "off" /\ NextTensor
    \/ hpc # "off" /\ NextHist

SpecAll == InitAll /\ [][NextAll]_vars

\* --------------------------------------------- properties of the histogram

\* the sum of the buckets of a set of bin tuples
RECURSIVE SumBuckets(_, _, _)
SumBuckets(aBuckets, cs, S) ==
    IF S = {} THEN ZeroBucket
    ELSE LET x == CHOOSE y \in S : TRUE
         IN BucketAdd(Rd(aBuckets, DirectIndex(cs, x)), SumBuckets(aBuckets, cs, S \ {x}))

\* the bin tuples of the box low..high
Box(cs, low, high) ==
    { x \in BinTuples(cs) : \A d \in 1..Len(cs) : low[d] <= x[d] /\ x[d] <= high[d] }

\* the sum of the buckets of a box as they were before BuildFastTotals
BoxOriginal(low, high) == SumBuckets(aDebugCopy, hStates, Box(hStates, low, high))

\* bit d (from 1) of a direction vector
DirectionBit(directionVector, d) == (directionVector \div (2 ^ (d - 1))) % 2

\* the box of GetTotals: 0..p_d where the bit of d is 0, p_d+1..cStates_d-1 where it is 1
DirectionLow(aiPoint, directionVector) ==
    [d \in 1..Len(hStates) |->
        IF DirectionBit(directionVector, d) = 1 THEN aiPoint[d] + 1 ELSE 0]

DirectionHigh(aiPoint, directionVector) ==
    [d \in 1..Len(hStates) |->
        IF DirectionBit(directionVector, d) = 1 THEN hStates[d] - 1 ELSE aiPoint[d]]

\* no axis of the box of GetTotals is empty
DirectionBoxInside(aiPoint, directionVector) ==
    \A d \in 1..Len(hStates) :
        DirectionBit(directionVector, d) = 1 => aiPoint[d] <= hStates[d] - 2

\* C1: after BuildFastTotals every cell of the main cube holds the count and the
\* residual sum of the original buckets over the box from the origin to the cell
FastTotalsIsCornerSum ==
    (hpc = "built" /\ query.pc = "none") =>
        \A x \in BinTuples(hStates) :
            Rd(aBinnedBuckets, DirectIndex(hStates, x))
               = BoxOriginal([d \in 1..Len(hStates) |-> 0], x)

\* BuildFastTotals has run on a three-dimensional histogram of two cases in
\* different buckets
FastTotalsIsCornerSumWitness ==
    /\ hpc = "built"
    /\ query.pc = "none"
    /\ Len(hStates) = 3
    /\ cCases = 2
    /\ \A i \in 1..Len(aDebugCopy) : aDebugCopy[i].cCasesInBucket <= 1
    /\ Rd(aBinnedBuckets, 0).cCasesInBucket = 0

RECURSIVE SumOverDirections(_, _)
SumOverDirections(aiPoint, directionVector) ==
    LET total == GetTotals(aBinnedBuckets, hStates, aiPoint, directionVector)
    IN IF directionVector = 0 THEN total
       ELSE BucketAdd(total, SumOverDirections(aiPoint, directionVector - 1))

\* the boxes of a point are pairwise disjoint and cover the grid
BoxesPartition(aiPoint) ==
    \A x \in BinTuples(hStates) :
        Cardinality({ v \in 0..(2 ^ Len(hStates) - 1) :
                        x \in Box(hStates, DirectionLow(aiPoint, v),
                                  DirectionHigh(aiPoint, v)) }) = 1

\* the last cell of the cube
WholeHistogram == Rd(aBinnedBuckets, cTotalBucketsMainSpaceOf(hStates) - 1)

BestSplit ==
    IF train.bCutFirst2
    THEN <<2, train.cutFirst2Best, train.cutFirst2LowBest, train.cutFirst2HighBest>>
    ELSE <<1, train.cutFirst1Best, train.cutFirst1LowBest, train.cutFirst1HighBest>>

\* every split of a pair: a dimension, a cut of it and two cuts of the other one
Splits ==
    UNION { { <<iFirst, cut, cutLow, cutHigh>> :
                cut \in 0..(hStates[iFirst] - 2),
                cutLow \in 0..(hStates[3 - iFirst] - 2),
                cutHigh \in 0..(hStates[3 - iFirst] - 2) } : iFirst \in 1..2 }

\* the quadrant of a split on the side sideFirst of the first cut and on the side
\* sideSecond of the cut that this side has on the other dimension (0 low, 1 high)
QuadrantLow(s, sideFirst, sideSecond) ==
    [d \in 1..2 |->
        IF d = s[1] THEN (IF sideFirst = 0 THEN 0 ELSE s[2] + 1)
        ELSE IF sideSecond = 0 THEN 0
        ELSE (IF sideFirst = 0 THEN s[3] ELSE s[4]) + 1]

QuadrantHigh(s, sideFirst, sideSecond) ==
    [d \in 1..2 |->
        IF d = s[1] THEN (IF sideFirst = 0 THEN s[2] ELSE hStates[d] - 1)
        ELSE IF sideSecond = 1 THEN hStates[d] - 1
        ELSE (IF sideFirst = 0 THEN s[3] ELSE s[4])]

QuadrantTotals(s, sideFirst, sideSecond) ==
    BoxOriginal(QuadrantLow(s, sideFirst, sideSecond), QuadrantHigh(s, sideFirst, sideSecond))

\* the sum of the scores of the four quadrants of a split
SplitScore(s) ==
    BucketScore(QuadrantTotals(s, 0, 0)) + BucketScore(QuadrantTotals(s, 0, 1))
       + BucketScore(QuadrantTotals(s, 1, 0)) + BucketScore(QuadrantTotals(s, 1, 1))

\* the cuts of a split on the dimension that is cut second, as the tensor lists them
SecondCuts(s) ==
    IF s[3] < s[4] THEN <<s[3], s[4]>>
    ELSE IF s[4] < s[3] THEN <<s[4], s[3]>>
    ELSE <<s[3]>>

\* C5: for a pair the split that TrainMultiDimensional emits has the largest sum of
\* the scores of the four quadrants among all splits: a first dimension, a cut of
\* it, and one cut of the other dimension for each side
TrainEmitsBestSplit ==
    train.pc = "done" =>
        /\ \A s \in Splits : SplitScore(s) <= SplitScore(BestSplit)
        /\ train.bestSplittingScoreFirst = SplitScore(BestSplit)
        /\ Divisions(train.tensor, BestSplit[1]) = <<BestSplit[2]>>
        /\ Divisions(train.tensor, 3 - BestSplit[1]) = SecondCuts(BestSplit)

\* a split that cuts the second dimension first has been emitted: it scores higher
\* than every split that cuts the first dimension first
TrainEmitsBestSplitWitness ==
    /\ train.pc = "done"
    /\ train.bCutFirst2
    /\ cCases = 4
    /\ \A s \in Splits : s[1] = 1 => SplitScore(s) < SplitScore(BestSplit)

\* the sides of the quadrant of the kept split that holds a pair of bins
SideFirst(x) == IF x[BestSplit[1]] <= BestSplit[2] THEN 0 ELSE 1

SideSecond(x) ==
    IF x[3 - BestSplit[1]] <= (IF SideFirst(x) = 0 THEN BestSplit[3] ELSE BestSplit[4])
    THEN 0 ELSE 1

\* the totals that TrainMultiDimensional kept for a quadrant of the best split
RetainedTotals(sideFirst, sideSecond) ==
    Rd(train.aDynamicBinnedBuckets,
       (IF train.bCutFirst2 THEN 12 ELSE 0) + 2 * sideFirst + sideSecond)

\* the locals of TrainMultiDimensional had it kept the split s with the totals of
\* its quadrants
KeptSplit(s) ==
    LET totals == <<QuadrantTotals(s, 0, 0), QuadrantTotals(s, 0, 1),
                    QuadrantTotals(s, 1, 0), QuadrantTotals(s, 1, 1)>>
        iBase == IF s[1] = 2 THEN 12 ELSE 0
    IN [train EXCEPT
           !.bCutFirst2 = (s[1] = 2),
           !.cutFirst1Best = s[2], !.cutFirst1LowBest = s[3], !.cutFirst1HighBest = s[4],
           !.cutFirst2Best = s[2], !.cutFirst2LowBest = s[3], !.cutFirst2HighBest = s[4],
           !.aDynamicBinnedBuckets =
               [i \in 1..Len(@) |-> IF i - 1 \in iBase..(iBase + 3)
                                    THEN totals[i - iBase] ELSE @[i]]]

\* a value is the residual sum over the case count of the totals, 0 without cases
IsMean(value, totals) ==
    /\ value * totals.cCasesInBucket = totals.sumResidualError * FractionScale
    /\ totals.cCasesInBucket = 0 => value = 0

\* C6: in the emitted tensor the value of every pair of bins is the residual sum
\* over the case count (0 without cases) of the kept quadrant that holds the pair,
\* and the kept quadrant totals are the sums of the original buckets over the
\* quadrant; the six layouts of the values do the same for every split of the pair,
\* kept or not
EmittedValueIsQuadrantMean ==
    train.pc = "done" =>
        /\ \A x \in BinTuples(hStates) :
              LET retained == RetainedTotals(SideFirst(x), SideSecond(x))
              IN /\ retained = QuadrantTotals(BestSplit, SideFirst(x), SideSecond(x))
                 /\ IsMean(ValueAt(train.tensor, x)[1], retained)
        /\ \A s \in Splits :
              LET tensor == EmitTensor(Allocate(2, 1), KeptSplit(s))
              IN \A x \in BinTuples(hStates) :
                    LET sideFirst == IF x[s[1]] <= s[2] THEN 0 ELSE 1
                        sideSecond == IF x[3 - s[1]] <= (IF sideFirst = 0 THEN s[3] ELSE s[4])
                                      THEN 0 ELSE 1
                    IN IsMean(ValueAt(tensor, x)[1], QuadrantTotals(s, sideFirst, sideSecond))

\* the six layouts of the emitted tensor
LayoutFirst1LowBelowHigh ==
    train.pc = "done" /\ ~train.bCutFirst2 /\ train.cutFirst1LowBest < train.cutFirst1HighBest

LayoutFirst1HighBelowLow ==
    train.pc = "done" /\ ~train.bCutFirst2 /\ train.cutFirst1HighBest < train.cutFirst1LowBest

LayoutFirst1Equal ==
    train.pc = "done" /\ ~train.bCutFirst2 /\ train.cutFirst1LowBest = train.cutFirst1HighBest

LayoutFirst2LowBelowHigh ==
    train.pc = "done" /\ train.bCutFirst2 /\ train.cutFirst2LowBest < train.cutFirst2HighBest

LayoutFirst2HighBelowLow ==
    train.pc = "done" /\ train.bCutFirst2 /\ train.cutFirst2HighBest < train.cutFirst2LowBest

LayoutFirst2Equal ==
    train.pc = "done" /\ train.bCutFirst2 /\ train.cutFirst2LowBest = train.cutFirst2HighBest

\* a tensor of six regions has been emitted for a split that cuts the second
\* dimension first, with cases in each of its four quadrants
EmittedValueIsQuadrantMeanWitness ==
    /\ LayoutFirst2HighBelowLow
    /\ \A sideFirst \in 0..1, sideSecond \in 0..1 :
          RetainedTotals(sideFirst, sideSecond).cCasesInBucket > 0
    /\ Cardinality({ ValueAt(train.tensor, x)[1] : x \in BinTuples(hStates) }) >= 2

\* the main cube that binning a sampling set leaves
HistogramOf(dataSet) ==
    SubSeq(BinFrom([i \in 1..cTotalBucketsOf(<<3, 2>>) |-> ZeroBucket], <<3, 2>>, dataSet, 1),
           1, cTotalBucketsMainSpaceOf(<<3, 2>>))

\* TrainMultiDimensional has returned for a sampling set
TrainedOn(dataSet) ==
    /\ train.pc = "done"
    /\ hStates = <<3, 2>>
    /\ cCases = Len(dataSet)
    /\ aDebugCopy = HistogramOf(dataSet)

\* C11 as the claim states it: for the pair of 3 and 2 bins with one case in every
\* pair of bins, residual +1 in bin 0 and -1 in bin 1 of the second dimension, the
\* emitted tensor has the cut 1 on the second dimension, +1 below it and -1 above
\* it, and the score is 6
SecondBinSplitCutIsOne ==
    TrainedOn(DataSetBySecondBin) =>
        /\ Divisions(train.tensor, 2) = <<1>>
        /\ \A x \in BinTuples(hStates) :
              ValueAt(train.tensor, x)[1] = IF x[2] < 1 THEN FractionScale ELSE 0 - FractionScale
        /\ train.bestSplittingScoreFirst = 6 * FractionScale

\* C11: for that sampling set the emitted tensor has the cut 0 on the second
\* dimension (the boundary behind bin 0) and the cut 0 on the first dimension, the
\* value is +1 in every region with bin 0 of the second dimension and -1 in every
\* region with bin 1, and the score of the kept split is 6
SecondBinSplitCutIsZero ==
    TrainedOn(DataSetBySecondBin) =>
        /\ Divisions(train.tensor, 2) = <<0>>
        /\ Divisions(train.tensor, 1) = <<0>>
        /\ ~train.bCutFirst2
        /\ \A x \in BinTuples(hStates) :
              ValueAt(train.tensor, x)[1] = IF x[2] = 0 THEN FractionScale ELSE 0 - FractionScale
        /\ train.bestSplittingScoreFirst = 6 * FractionScale

\* the tensor of four regions has been emitted for the sampling set of C11
SecondBinSplitWitness ==
    /\ TrainedOn(DataSetBySecondBin)
    /\ CountRegions(train.tensor) = 4

\* the score of a single cut of the whole histogram on one dimension
SingleCutScore(d, cut) ==
    BucketScore(BoxOriginal([k \in 1..2 |-> 0],
                            [k \in 1..2 |-> IF k = d THEN cut ELSE hStates[k] - 1]))
       + BucketScore(BoxOriginal([k \in 1..2 |-> IF k = d THEN cut + 1 ELSE 0],
                                 [k \in 1..2 |-> hStates[k] - 1]))

\* C12 as the claim states it: for the same pair with the residuals +1, -1, +1, -1,
\* +1, -1 every single cut scores 0 and the emitted tensor has no cut on either
\* dimension and the value 0
AlternatingEmitsSingleRegion ==
    TrainedOn(DataSetAlternating) =>
        /\ \A d \in 1..2 : \A cut \in 0..(hStates[d] - 2) : SingleCutScore(d, cut) = 0
        /\ \A d \in 1..2 : Divisions(train.tensor, d) = <<>>
        /\ \A x \in BinTuples(hStates) : ValueAt(train.tensor, x)[1] = 0

\* C12: for that sampling set a single cut of the first dimension scores 0 and the
\* single cut of the second dimension scores 2/3; the emitted tensor has the cut 0
\* on both dimensions, for the split that isolates bin 0 of the first dimension and
\* cuts it between its two cases: the value is +1 at (0, 0), -1 at (0, 1) and 0 in
\* the two regions above the first cut, and the score is 2
AlternatingEmitsFourRegions ==
    TrainedOn(DataSetAlternating) =>
        /\ \A cut \in 0..1 : SingleCutScore(1, cut) = 0
        /\ 3 * SingleCutScore(2, 0) = 2 * FractionScale
        /\ \A d \in 1..2 : Divisions(train.tensor, d) = <<0>>
        /\ ~train.bCutFirst2
        /\ \A x \in BinTuples(hStates) :
              ValueAt(train.tensor, x)[1] =
                 IF x[1] # 0 THEN 0 ELSE IF x[2] = 0 THEN FractionScale ELSE 0 - FractionScale
        /\ train.bestSplittingScoreFirst = 2 * FractionScale

\* the tensor has been emitted for the sampling set of C12 and is not constant
AlternatingWitness ==
    /\ TrainedOn(DataSetAlternating)
    /\ Cardinality({ ValueAt(train.tensor, x)[1] : x \in BinTuples(hStates) }) = 3

\* C13 as the claim states it: every cut of the emitted tensor on the dimension d
\* lies in 1..cStates_d - 1
EmittedCutsOneBased ==
    train.pc = "done" =>
        \A d \in 1..2 : \A i \in 1..Len(Divisions(train.tensor, d)) :
            Divisions(train.tensor, d)[i] \in 1..(hStates[d] - 1)

\* C13: every cut of the emitted tensor on the dimension d lies in
\* 0..cStates_d - 2: the cut c is the boundary between the bins c and c + 1
EmittedCutsZeroBased ==
    train.pc = "done" =>
        \A d \in 1..2 : \A i \in 1..Len(Divisions(train.tensor, d)) :
            Divisions(train.tensor, d)[i] \in 0..(hStates[d] - 2)

\* a tensor has been emitted with the lowest and the highest cut of a dimension
\* of three bins
EmittedCutsWitness ==
    /\ train.pc = "done"
    /\ \E d \in 1..2 : hStates[d] = 3 /\ Divisions(train.tensor, d) = <<0, 1>>

\* C14: the emitted tensor has one cut on the dimension that was cut first; on the
\* other dimension it has the cuts of the two sides in ascending order when they
\* differ and their common cut when they do not, so either dimension has one or two
\* cuts; and it has 2 * (cuts of the other dimension + 1) regions, each with a value
EmittedShape ==
    train.pc = "done" =>
        LET first == Divisions(train.tensor, BestSplit[1])
            second == Divisions(train.tensor, 3 - BestSplit[1])
        IN /\ Len(first) = 1
           /\ IF BestSplit[3] # BestSplit[4]
              THEN /\ Len(second) = 2
                   /\ second[1] < second[2]
                   /\ {second[1], second[2]} = {BestSplit[3], BestSplit[4]}
              ELSE second = <<BestSplit[3]>>
           /\ CountRegions(train.tensor) = 2 * (Len(second) + 1)
           /\ Len(Values(train.tensor)) = 2 * (Len(second) + 1)
           /\ \A i \in 1..Len(Values(train.tensor)) : Values(train.tensor)[i] # Uninit
           /\ train.tensor.m_cValueCapacity >= 2 * (Len(second) + 1)

\* a tensor of six regions has been emitted whose high side has the lower cut
EmittedShapeWitness ==
    /\ train.pc = "done"
    /\ BestSplit[4] < BestSplit[3]
    /\ CountRegions(train.tensor) = 6

OriginalBuckets ==
    [i \in 1..cTotalBucketsOf(hStates) |->
        IF i <= Len(aDebugCopy) THEN aDebugCopy[i] ELSE ZeroBucket]

\* C18: on a histogram of two dimensions or more, the main cube that
\* BuildFastTotalsZeroMemoryIncrease leaves is bucket by bucket the main cube that
\* BuildFastTotals leaves on the same buckets
ZeroMemoryIncreaseSameCube ==
    hpc = "builtZeroMemory" =>
        SubSeq(aBinnedBuckets, 1, cTotalBucketsMainSpaceOf(hStates))
           = SubSeq(BuildFastTotals(OriginalBuckets, hStates), 1,
                    cTotalBucketsMainSpaceOf(hStates))

\* the transform has run over a histogram of three dimensions with cases in
\* different buckets, of which the last bucket of the cube holds none
ZeroMemoryIncreaseSameCubeWitness ==
    /\ hpc = "builtZeroMemory"
    /\ Len(hStates) = 3
    /\ Cardinality({ i \in 1..Len(aDebugCopy) : aDebugCopy[i].cCasesInBucket > 0 }) >= 2
    /\ aDebugCopy[Len(aDebugCopy)].cCasesInBucket = 0
    /\ Rd(aBinnedBuckets, Len(aDebugCopy) - 1).sumResidualError # 0

\* C20: whenever an allocation or a grow inside TrainMultiDimensional has failed
\* (the histogram buffer, the scratch buckets, the cuts or the values of the
\* output tensor), the function has returned the error result and has written
\* nothing behind the end of the buffer that did not grow
FailedGrowReturnsError ==
    train.failed # {} => (train.ret = 1 /\ train.cPastCapacity = 0)

\* C21: with a combination of another dimensionality than 2 the two functions end
\* the process when they reach the test of the dimensions: once the totals are
\* built, the one thing either function does is the exit, and after it nothing has
\* been returned, no tensor has been written and no score has been written; the
\* process is ended that way for no pair
UnsupportedDimensionalityExits ==
    [][/\ (hpc = "built" /\ Len(hStates) # 2 /\ train' # train) => train'.pc = "exit"
       /\ train'.pc = "exit" =>
             /\ Len(hStates) # 2
             /\ train'.ret = Uninit
             /\ train'.tensor = <<>>
             /\ train'.pInteractionScoreReturn = Uninit]_vars

\* CalculateInteractionScore has ended the process on a histogram of three
\* dimensions that holds cases
UnsupportedDimensionalityExitsWitness ==
    /\ train.pc = "exit"
    /\ train.entry = "CalculateInteractionScore"
    /\ Len(hStates) = 3
    /\ cCases >= 2

\* C22: when TrainMultiDimensional or CalculateInteractionScore has returned, with
\* the error result or without it, every buffer that the call got from malloc has
\* been given to free
ScratchReleasedOnReturn ==
    train.ret # Uninit => train.heap = {}

\* the cells of the ring of dimension d are all zero
RingIsZero(d) ==
    \A i \in fastTotalState[d].pDimensionalFirst..(fastTotalState[d].pDimensionalWrap - 1) :
        Rd(aBinnedBuckets, i) = ZeroBucket

\* the last turn of the loop of BuildFastTotals has started dimension d over: every
\* dimension up to d is back at 0, while a turn that ends below d leaves the
\* dimension it ends at above 0
JustWrapped(d) ==
    /\ hpc \in {"totals", "built"}
    /\ pBinnedBucket > 0
    /\ \A k \in 1..d : fastTotalState[k].iCur = 0

\* the slots behind the main cube: the ring of dimension d has as many as the
\* product of the cStates of the dimensions below d
cRingSlots(cs) == SumSeq([d \in 1..Len(cs) |-> Product(SubSeq(cs, 1, d - 1))])

\* C27: in BuildFastTotals, whenever the index of a dimension starts over, the
\* cursor of its ring is on the first slot of the ring and the whole ring is zero;
\* so when BuildFastTotals has returned every bucket behind the main cube is zero;
\* and the buckets it writes, the cell of the main cube, the slots under the ring
\* cursors and the rings it zeroes, all lie within the main cube plus the ring
\* slots that TrainMultiDimensional has allocated
RingsWrapZeroed ==
    hpc \in {"totals", "built"} =>
        /\ \A d \in 1..Len(hStates) :
              JustWrapped(d) =>
                 /\ fastTotalState[d].pDimensionalCur = fastTotalState[d].pDimensionalFirst
                 /\ RingIsZero(d)
        /\ hpc = "built" =>
              \A i \in cTotalBucketsMainSpaceOf(hStates)..(Len(aBinnedBuckets) - 1) :
                  Rd(aBinnedBuckets, i) = ZeroBucket
        /\ Len(aBinnedBuckets) = cTotalBucketsMainSpaceOf(hStates) + cRingSlots(hStates)
        /\ hpc = "totals" => pBinnedBucket < cTotalBucketsMainSpaceOf(hStates)
        /\ \A d \in 1..Len(hStates) :
              /\ cTotalBucketsMainSpaceOf(hStates) <= fastTotalState[d].pDimensionalFirst
              /\ fastTotalState[d].pDimensionalFirst <= fastTotalState[d].pDimensionalCur
              /\ fastTotalState[d].pDimensionalCur < fastTotalState[d].pDimensionalWrap
              /\ fastTotalState[d].pDimensionalWrap <= Len(aBinnedBuckets)

\* half way through a cube of three dimensions the second dimension has started
\* over, and its ring had summed up the cases of the first plane
RingsWrapZeroedWitness ==
    /\ hpc = "totals"
    /\ Len(hStates) = 3
    /\ pBinnedBucket = 4
    /\ JustWrapped(2)
    /\ Rd(aBinnedBuckets, 3).cCasesInBucket >= 2

\* the splits of a pair that cut the second dimension at the same place on both
\* sides of the cut of the first: one pair of cuts each, four quadrants
CrossSplits ==
    { <<1, cut1, cut2, cut2>> : cut1 \in 0..(hStates[1] - 2), cut2 \in 0..(hStates[2] - 2) }

\* C28: for a pair, the score that CalculateInteractionScore hands to its caller is
\* the largest, over every pair of a cut of the first and a cut of the second
\* dimension, of the sum of the scores of the four quadrants of the original
\* histogram, a quadrant without cases scoring 0; it is not below 0, and it is not
\* above the largest score of the splits among which TrainMultiDimensional picks
\* (which is the score TrainMultiDimensional ends with, see TrainEmitsBestSplit)
InteractionScoreIsBestCross ==
    train.pc = "scored" =>
        /\ \E s \in CrossSplits : train.pInteractionScoreReturn = SplitScore(s)
        /\ \A s \in CrossSplits : SplitScore(s) <= train.pInteractionScoreReturn
        /\ 0 <= train.pInteractionScoreReturn
        /\ \E s \in Splits : train.pInteractionScoreReturn <= SplitScore(s)
        /\ train.ret = 0

\* a score above 0 on three cases or more that a split with different cuts on the
\* two sides of its first cut beats
InteractionScoreIsBestCrossWitness ==
    /\ train.pc = "scored"
    /\ cCases >= 3
    /\ 0 < train.pInteractionScoreReturn
    /\ \E s \in Splits : train.pInteractionScoreReturn < SplitScore(s)

\* the split that TrainMultiDimensional has kept for the splits that cut dimension
\* iFirst first
BestSplitOf(iFirst) ==
    IF iFirst = 2
    THEN <<2, train.cutFirst2Best, train.cutFirst2LowBest, train.cutFirst2HighBest>>
    ELSE <<1, train.cutFirst1Best, train.cutFirst1LowBest, train.cutFirst1HighBest>>

\* what one sweep scores: the two quadrants on one side of the first cut of a split
SideScore(s, sideFirst) ==
    BucketScore(QuadrantTotals(s, sideFirst, 0)) + BucketScore(QuadrantTotals(s, sideFirst, 1))

\* C30: equal scores are settled for the candidate that comes first. Within a sweep
\* every lower cut scores strictly less than the cut kept; among the splits that
\* cut the same dimension first none scores more than the split kept for that
\* dimension and every one with a lower first cut scores strictly less; and a
\* split that cuts the second dimension first is the best split exactly when some
\* such split scores strictly more than the split kept for the first dimension
TiesKeepEarliest ==
    train.pc = "done" =>
        /\ \A iFirst \in (IF train.bCutFirst2 THEN {1, 2} ELSE {1}) :
              /\ \A s \in Splits :
                    s[1] = iFirst =>
                       /\ SplitScore(s) <= SplitScore(BestSplitOf(iFirst))
                       /\ s[2] < BestSplitOf(iFirst)[2] =>
                             SplitScore(s) < SplitScore(BestSplitOf(iFirst))
              /\ \A cut \in 0..(BestSplitOf(iFirst)[3] - 1) :
                    SideScore(<<iFirst, BestSplitOf(iFirst)[2], cut, cut>>, 0)
                       < SideScore(BestSplitOf(iFirst), 0)
              /\ \A cut \in 0..(BestSplitOf(iFirst)[4] - 1) :
                    SideScore(<<iFirst, BestSplitOf(iFirst)[2], cut, cut>>, 1)
                       < SideScore(BestSplitOf(iFirst), 1)
        /\ train.bCutFirst2 <=>
              \E s \in Splits : s[1] = 2 /\ SplitScore(BestSplitOf(1)) < SplitScore(s)
        /\ BestSplit = BestSplitOf(IF train.bCutFirst2 THEN 2 ELSE 1)

\* the first cut of the first dimension has been kept although the second cut of
\* that dimension and a split that cuts the second dimension first score the same
TiesKeepEarliestWitness ==
    /\ train.pc = "done"
    /\ ~train.bCutFirst2
    /\ 0 < SplitScore(BestSplit)
    /\ \E s \in Splits : s[1] = 1 /\ BestSplit[2] < s[2] /\ SplitScore(s) = SplitScore(BestSplit)
    /\ \E s \in Splits : s[1] = 2 /\ SplitScore(s) = SplitScore(BestSplit)

\* ------------------------------------------------ properties of the tensor

\* the value vector at a dense index
DenseAt(t, i) == [iVector \in 1..t.m_cVectorLength |->
                     Rd(t.m_aValues, i * t.m_cVectorLength + iVector - 1)]

AddDone == op.kind = "Add" /\ op.pc = "done"
ExpandDone == op.kind = "Expand" /\ op.pc = "done"

\* C3: after A.Add(B) has returned, the value of A at every bin tuple, looked up
\* through A's new divisions, is the old A there plus B there, in every vector
\* component, and B is as it was
AddIsPointwiseSum ==
    AddDone =>
        /\ \A x \in BinTuples(acStates) :
              ValueAt(A, x) = [iVector \in 1..A.m_cVectorLength |->
                                  ValueAt(preA, x)[iVector] + ValueAt(B, x)[iVector]]
        /\ B = preB

\* an Add of two compact two-dimensional tensors with different, non-empty divisions
\* on the first axis and vector length 2 has returned
AddIsPointwiseSumWitness ==
    /\ AddDone
    /\ Len(acStates) = 2
    /\ A.m_cVectorLength = 2
    /\ Divisions(preA, 1) # <<>>
    /\ Divisions(B, 2) # <<>>
    /\ Divisions(preA, 2) # Divisions(B, 2)
    /\ ~preA.m_bExpanded

\* C4: Expand of a compact tensor leaves the divisions 0, 1, ..., cStates_d - 2 on
\* every axis, the expanded flag set, and at the dense index of every bin tuple the
\* value that the search of GetValue found for it before the call
ExpandPreservesFunction ==
    (ExpandDone /\ ~preA.m_bExpanded) =>
        /\ \A d \in 1..Len(acStates) : Divisions(A, d) = IdentityCuts(acStates)[d]
        /\ A.m_bExpanded
        /\ \A x \in BinTuples(acStates) :
              DenseAt(A, DirectIndex(acStates, x)) = ValueAt(preA, x)

\* a compact two-dimensional tensor with a division on each axis has been expanded
ExpandPreservesFunctionWitness ==
    /\ ExpandDone
    /\ ~preA.m_bExpanded
    /\ Len(acStates) = 2
    /\ acStates[1] = 3
    /\ Divisions(preA, 1) = <<1>>
    /\ Divisions(preA, 2) = <<0>>

IsZeroTensor(t) ==
    /\ \A d \in 1..cDimensionsOf(t) : t.m_aDimensions[d].cDivisions = 0
    /\ \A i \in 1..t.m_cVectorLength : t.m_aValues[i] = 0

\* C7: adding the zero tensor (no divisions, all values 0) leaves A with the count
\* and the values of the divisions it had on every axis and with the same values
AddZeroIsIdentity ==
    (AddDone /\ IsZeroTensor(B)) =>
        /\ \A d \in 1..Len(acStates) :
              /\ A.m_aDimensions[d].cDivisions = preA.m_aDimensions[d].cDivisions
              /\ Divisions(A, d) = Divisions(preA, d)
        /\ Values(A) = Values(preA)

\* the zero tensor has been added to a tensor with two divisions on its first axis
AddZeroIsIdentityWitness ==
    /\ AddDone
    /\ IsZeroTensor(B)
    /\ preA.m_aDimensions[1].cDivisions = 2

\* C8: Expand of an expanded tensor has returned at once, reporting success, and the
\* tensor (divisions, values, capacities, expanded flag) is as it was
ExpandOfExpandedIsNoOp ==
    (op.kind = "Expand" /\ preA.m_bExpanded) =>
        /\ op.pc = "done"
        /\ op.ret = FALSE
        /\ A = preA

\* Expand was called on a tensor that an earlier Expand had expanded
ExpandOfExpandedIsNoOpWitness ==
    /\ ExpandDone
    /\ preA.m_bExpanded
    /\ cOps = 2

\* C10 as the spec states it: a division c is the boundary before bin c, so the
\* expanded grid of a one-axis tensor with one division holds the first value in
\* bins 0..c-1 and the second in bins c..n-1
ExpandCutIsBoundaryBefore ==
    (ExpandDone /\ ~preA.m_bExpanded /\ Len(acStates) = 1
       /\ preA.m_cVectorLength = 1 /\ preA.m_aDimensions[1].cDivisions = 1) =>
        /\ Divisions(A, 1) = IdentityCuts(acStates)[1]
        /\ \A bin \in 0..(acStates[1] - 1) :
              Rd(A.m_aValues, bin) =
                 IF bin < Rd(preA.m_aDimensions[1].aDivisions, 0)
                 THEN Rd(preA.m_aValues, 0) ELSE Rd(preA.m_aValues, 1)

\* C10, amended: a division c is the boundary after bin c: the expanded grid of a
\* one-axis tensor with one division c and values [a, b] over n bins has the
\* divisions 0..n-2 and holds a in bins 0..c and b in bins c+1..n-1; for division 2,
\* values [10, 20] and n = 5 the result is divisions [0,1,2,3], values [10,10,10,20,20]
ExpandCutIsBoundaryAfter ==
    (ExpandDone /\ ~preA.m_bExpanded /\ Len(acStates) = 1
       /\ preA.m_cVectorLength = 1 /\ preA.m_aDimensions[1].cDivisions = 1) =>
        /\ Divisions(A, 1) = IdentityCuts(acStates)[1]
        /\ \A bin \in 0..(acStates[1] - 1) :
              Rd(A.m_aValues, bin) =
                 IF bin <= Rd(preA.m_aDimensions[1].aDivisions, 0)
                 THEN Rd(preA.m_aValues, 0) ELSE Rd(preA.m_aValues, 1)
        /\ (acStates = <<5>> /\ Divisions(preA, 1) = <<2>> /\ Values(preA) = <<10, 20>>) =>
              /\ Divisions(A, 1) = <<0, 1, 2, 3>>
              /\ Values(A) = <<10, 10, 10, 20, 20>>

\* the tensor with division 2 and values [10, 20] over 5 bins has been expanded
ExpandCutIsBoundaryAfterWitness ==
    /\ ExpandDone
    /\ acStates = <<5>>
    /\ Divisions(preA, 1) = <<2>>
    /\ Values(preA) = <<10, 20>>
    /\ ~preA.m_bExpanded

CopyDone == op.kind = "Copy" /\ op.pc = "done"

\* the operation that has returned was started on a tensor that Copy had made of B
StartedOnCopy ==
    /\ op.pc = "done"
    /\ op.kind \in {"Add", "Multiply", "Expand"}
    /\ IsEqual(preA, preB)
    /\ preA.m_bExpanded = preB.m_bExpanded

\* C16: after A.Copy(B) has returned false, A has the cut count and the cuts of B on
\* every dimension, the values of B and the expanded flag of B, so IsEqual holds
\* and every lookup agrees, and B is as it was; an Add, Multiply or Expand on the
\* copy afterwards leaves B as it was
CopyIsDeep ==
    /\ CopyDone =>
          /\ op.ret = FALSE
          /\ \A d \in 1..Len(acStates) :
                /\ A.m_aDimensions[d].cDivisions = B.m_aDimensions[d].cDivisions
                /\ Divisions(A, d) = Divisions(B, d)
          /\ Values(A) = Values(B)
          /\ A.m_bExpanded = B.m_bExpanded
          /\ IsEqual(A, B)
          /\ \A x \in BinTuples(acStates) : ValueAt(A, x) = ValueAt(B, x)
          /\ B = preB
    /\ StartedOnCopy =>
          /\ B = preB
          /\ \A x \in BinTuples(acStates) : ValueAt(B, x) = ValueAt(preA, x)

\* a copy of a tensor with cuts has been made and B has then been added to it, which
\* changed the copy
CopyIsDeepWitness ==
    /\ StartedOnCopy
    /\ op.kind = "Add"
    /\ CountRegions(B) > 1
    /\ Values(A) # Values(preA)

\* C19: when Copy, Expand or Add has returned true because a realloc failed, the
\* tensor has the cuts, the values and the expanded flag it had before the call
FailedCallLeavesTensor ==
    op.pc = "failed" =>
        /\ op.ret = TRUE
        /\ \A d \in 1..Len(acStates) : Divisions(A, d) = Divisions(preA, d)
        /\ Values(A) = Values(preA)
        /\ A.m_bExpanded = preA.m_bExpanded

\* no value or division in use is memory the program never wrote
NoUninitRead ==
    op.pc \in {"idle", "done"} =>
        /\ \A i \in 1..Len(Values(A)) : Values(A)[i] # Uninit
        /\ \A d \in 1..Len(acStates) : \A i \in 1..Len(Divisions(A, d)) :
              Divisions(A, d)[i] # Uninit

\* C23 as stated: no step of a tensor operation takes the expanded flag of the
\* tensor from true to false
ExpandedNeverCleared ==
    [][A.m_bExpanded => A'.m_bExpanded]_vars

\* C23, amended: the expanded flag of the tensor goes from true to false in Reset
\* and in a Copy from a tensor that is not expanded, and nowhere else: Add,
\* Multiply and Expand, with the SetCountDivisions and EnsureValueCapacity inside
\* them, keep it; Reset always leaves it false and a Copy that succeeds leaves the
\* flag of its source
ExpandedClearedByResetAndCopy ==
    [][/\ (A.m_bExpanded /\ ~A'.m_bExpanded) =>
             \/ op'.kind = "Reset"
             \/ op'.kind = "Copy" /\ op'.pc = "done" /\ ~B.m_bExpanded
       /\ (op' # op /\ op'.kind = "Reset") => ~A'.m_bExpanded
       /\ (op' # op /\ op'.kind = "Copy" /\ op'.pc = "done") =>
             A'.m_bExpanded = B.m_bExpanded]_vars

\* an expanded tensor has been reset
ExpandedClearedWitness ==
    /\ op.kind = "Reset"
    /\ preA.m_bExpanded
    /\ ~A.m_bExpanded
    /\ CountRegions(preA) > 1

\* the divisions in use are strictly ascending on every dimension, and the values
\* of all regions, of which there is at least one, fit the value array
WellFormed(t) ==
    /\ \A d \in 1..cDimensionsOf(t) :
          \A i \in 1..(Len(Divisions(t, d)) - 1) : Divisions(t, d)[i] < Divisions(t, d)[i + 1]
    /\ CountRegions(t) >= 1
    /\ CountRegions(t) * t.m_cVectorLength <= t.m_cValueCapacity
    /\ t.m_cValueCapacity = Len(t.m_aValues)

RECURSIVE ExpandReads(_, _, _, _)
ExpandReads(t, stack, pValue1, pValueTop) ==
    IF pValueTop - t.m_cVectorLength = 0 - 1 THEN {pValue1}
    ELSE LET moved == ExpandMove(t, stack, pValue1, t.m_cVectorLength, 1)
         IN {pValue1} \cup ExpandReads(t, moved.stack, moved.pValue1,
                                       pValueTop - t.m_cVectorLength)

\* the same for the outer loop of Add
RECURSIVE AddReads(_, _, _, _, _, _)
AddReads(t, rhs, stack, pValue1, pValue2, pValueTop) ==
    IF pValueTop - t.m_cVectorLength = 0 - 1 THEN {pValue1}
    ELSE LET moved == AddMove(t, rhs, stack, pValue1, pValue2,
                              t.m_cVectorLength, t.m_cVectorLength, 1)
         IN {pValue1} \cup AddReads(t, rhs, moved.stack, moved.pValue1, moved.pValue2,
                                    pValueTop - t.m_cVectorLength)

\* the reads of own values that the running operation still has to do
OwnReads ==
    IF op.kind = "Expand"
    THEN ExpandReads(A, op.stack, op.pValue1, op.pValueTop)
    ELSE AddReads(A, B, op.stack, op.pValue1, op.pValue2, op.pValueTop)

\* C25: at every turn of the reverse rewrite of the values in Add and in Expand,
\* the position written, pValueTop, is not below any position of the tensor's own
\* value array that is read in this turn or in a later one: no own value is
\* overwritten before it has been read
WriteNotBelowOwnReads ==
    op.pc = "values" => \A pValue1 \in OwnReads : pValue1 <= op.pValueTop

\* Add in the middle of the rewrite of a tensor of two dimensions: the cell to
\* write is one that held an own value, it lies above the own cursor, and further
\* own values are still to be read
WriteNotBelowOwnReadsWitness ==
    /\ op.kind = "Add"
    /\ op.pc = "values"
    /\ cDimensionsOf(A) = 2
    /\ op.pValueTop < CountRegions(A) * A.m_cVectorLength
    /\ op.pValue1 < op.pValueTop
    /\ Cardinality(OwnReads) >= 2

\* the divisions that either tensor has on dimension d
UnionOfDivisions(t, rhs, d) ==
    { Divisions(t, d)[i] : i \in 1..Len(Divisions(t, d)) }
        \cup { Divisions(rhs, d)[i] : i \in 1..Len(Divisions(rhs, d)) }

\* C26: after A.Add(B) has returned without error, the divisions of A on every
\* dimension are the ascending sequence of the divisions that A had before or that
\* B has, each once; their count is the size of that union and is the count that
\* the forward merge-scan had computed before the backward merge wrote them
AddMergesDivisions ==
    (op.kind = "Add" /\ op.pc = "done") =>
        \A d \in 1..cDimensionsOf(A) :
            /\ Divisions(A, d) = SortedSeq(UnionOfDivisions(preA, B, d))
            /\ A.m_aDimensions[d].cDivisions = Cardinality(UnionOfDivisions(preA, B, d))
            /\ op.stack[d].cNewDivisions = A.m_aDimensions[d].cDivisions

\* the divisions <<2>> and <<3>> have been merged into <<2, 3>>
AddMergesDivisionsWitness ==
    /\ op.kind = "Add"
    /\ op.pc = "done"
    /\ cDimensionsOf(A) = 1
    /\ Divisions(preA, 1) = <<2>>
    /\ Divisions(B, 1) = <<3>>
    /\ Divisions(A, 1) = <<2, 3>>

\* the regions of the result of the running Expand or Add: on every dimension one
\* more than the divisions of the result
NewRegions ==
    IF op.kind = "Expand" THEN Product(acStates)
    ELSE Product([d \in 1..cDimensionsOf(A) |-> Cardinality(UnionOfDivisions(A, B, d)) + 1])

\* where the cursors of the rewrite of the values are: on the last value of a
\* region of their arrays while the loop runs; when it is left, pValueTop just
\* before the first value and the read cursors on the first region
CursorsInside ==
    /\ op.pc = "values" =>
          /\ A.m_cVectorLength - 1 <= op.pValueTop
          /\ op.pValueTop < A.m_cVectorLength * NewRegions
          /\ (op.pValueTop + 1) % A.m_cVectorLength = 0
          /\ A.m_cVectorLength - 1 <= op.pValue1
          /\ op.pValue1 < A.m_cVectorLength * CountRegions(A)
          /\ (op.pValue1 + 1) % A.m_cVectorLength = 0
          /\ op.kind = "Add" =>
                /\ B.m_cVectorLength - 1 <= op.pValue2
                /\ op.pValue2 < B.m_cVectorLength * CountRegions(B)
                /\ (op.pValue2 + 1) % B.m_cVectorLength = 0
    /\ op.pc = "divisions" =>
          /\ op.pValueTop = 0 - 1
          /\ op.pValue1 = A.m_cVectorLength - 1
          /\ op.kind = "Add" => op.pValue2 = B.m_cVectorLength - 1

\* the loop starts on the last value of the last region of the result, and every
\* turn writes one value vector and nothing else and moves pValueTop down by one
\* vector, until it is just before the first value
OneVectorPerTurn ==
    /\ (op.pc # "values" /\ op'.pc = "values") =>
          op'.pValueTop + 1 = A'.m_cVectorLength * NewRegions'
    /\ op.pc = "values" =>
          /\ op'.pc \in {"values", "divisions"}
          /\ op'.pValueTop = op.pValueTop - A.m_cVectorLength
          /\ op'.pc = "divisions" <=> op'.pValueTop = 0 - 1
          /\ \A i \in 0..(Len(A.m_aValues) - 1) :
                (i <= op'.pValueTop \/ op.pValueTop < i) =>
                    Rd(A'.m_aValues, i) = Rd(A.m_aValues, i)

\* C29: the rewrite of the values in Add and in Expand always comes to its end; it
\* writes exactly one value vector for every region of the result; when it ends
\* the write cursor is just before the first value and the read cursor of every
\* input is on the first region; no cursor is ever before the start of its array
RewriteTerminates ==
    /\ []CursorsInside
    /\ [][OneVectorPerTurn]_vars
    /\ (op.pc = "values") ~> (op.pc = "divisions")

\* Add has left the loop after six turns or more over two tensors of two
\* dimensions with more than one region each
RewriteTerminatesWitness ==
    /\ op.kind = "Add"
    /\ op.pc = "divisions"
    /\ cDimensionsOf(A) = 2
    /\ NewRegions >= 6
    /\ CountRegions(A) >= 2
    /\ CountRegions(B) >= 2
    /\ CountRegions(A) < NewRegions

====
